---- MODULE Spec2Model ----
(***************************************************************************)
(* Grounding verifier of the appeal writer (src/src/appeal/verify.ts).     *)
(*                                                                         *)
(* A text is a sequence of lexical tokens.  Every token is one character   *)
(* of the source text, except a few whole words that the verifier's        *)
(* regular expressions treat as units: NE is the literal                   *)
(* "[NEEDS EVIDENCE:", "days" a unit word, "ICD" and "CPT" the code        *)
(* prefixes, SRC and GEN the two wordings a placeholder is built from.     *)
(* No token is a prefix of, or occurs inside, another one that a sentence  *)
(* can start with, so a search over tokens finds what the search over      *)
(* characters finds.  Offsets (lastIndex, slice) are counted in            *)
(* characters through Width.                                               *)
(***************************************************************************)
EXTENDS Integers, Sequences, FiniteSets, TLC

\* ------------------------------------------------------------------ tokens
NE == "[NEEDS EVIDENCE:"
SRC == "source for"
GEN == "citation for numeric claim in this sentence"
NL == "NL"

DigitToks == {"4", "7"}
SpaceToks == {" ", NL}
DigitCommaToks == DigitToks \cup {","}
UnitToks == {"days", "sessions", "visits", "units"}
WordToks == DigitToks \cup UnitToks \cup {"A", "ICD", "CPT", SRC, GEN}
UpperOrBracketToks == {"A", "ICD", "CPT", NE}
EnderToks == {".", "!", "?"}
ColonOrDotToks == {".", ":", NE}

\* number of characters of a token
Width(t) ==
  CASE t = NE -> 16
    [] t = SRC -> 10
    [] t = GEN -> 43
    [] t = "sessions" -> 8
    [] t = "visits" -> 6
    [] t = "units" -> 5
    [] t = "days" -> 4
    [] t \in {"ICD", "CPT"} -> 3
    [] OTHER -> 1

RECURSIVE CharLen(_)
CharLen(s) == IF s = <<>> THEN 0 ELSE Width(Head(s)) + CharLen(Tail(s))

\* character offset at which token i of s starts (i in 1..Len(s)+1)
Offset(s, i) == CharLen(SubSeq(s, 1, i - 1))

SetMin(S) == CHOOSE x \in S : \A y \in S : x <= y
SetMax(S) == CHOOSE x \in S : \A y \in S : x >= y

\* index after the longest run of tokens of class S that starts at i
RunEnd(s, i, S) ==
  LET stops == {j \in i..Len(s) : s[j] \notin S}
  IN IF stops = {} THEN Len(s) + 1 ELSE SetMin(stops)

\* \b between token i-1 and token i
Boundary(s, i) ==
  LET left == i > 1 /\ i - 1 <= Len(s) /\ s[i - 1] \in WordToks
      right == i >= 1 /\ i <= Len(s) /\ s[i] \in WordToks
  IN left # right

Tok(s, i) == IF i >= 1 /\ i <= Len(s) THEN s[i] ELSE "<eof>"

\* String.prototype.trim
Trim(s) ==
  LET keep == {j \in 1..Len(s) : s[j] \notin SpaceToks}
  IN IF keep = {} THEN <<>> ELSE SubSeq(s, SetMin(keep), SetMax(keep))

\* String.prototype.includes / indexOf (0 when absent)
IndexOf(hay, needle) ==
  LET at == {i \in 1..(Len(hay) - Len(needle) + 1) :
               SubSeq(hay, i, i + Len(needle) - 1) = needle}
  IN IF at = {} THEN 0 ELSE SetMin(at)

Includes(hay, needle) == IndexOf(hay, needle) # 0

\* s.replace(/,/g, "")
RECURSIVE StripCommas(_)
StripCommas(s) ==
  IF s = <<>> THEN <<>>
  ELSE IF Head(s) = "," THEN StripCommas(Tail(s))
  ELSE <<Head(s)>> \o StripCommas(Tail(s))

\* s.replace(/CPT\s+/i, ""): the first "CPT" followed by white space goes
StripCpt(s) ==
  LET at == {i \in 1..Len(s) : s[i] = "CPT" /\ Tok(s, i + 1) \in SpaceToks}
  IN IF at = {} THEN s
     ELSE LET p == SetMin(at)
          IN SubSeq(s, 1, p - 1) \o SubSeq(s, RunEnd(s, p + 1, SpaceToks), Len(s))

\* ------------------------------------------------- the regular expressions
\* Each XxxAt(s, p) is the index after the match of the expression that
\* starts at token p, or 0 when there is none (first match in the order
\* a backtracking matcher tries them: greedy quantifiers first).

\* /\$[\d,]+(?:\.\d{2})?/
DollarAt(s, p) ==
  IF Tok(s, p) # "$" THEN 0
  ELSE LET e == RunEnd(s, p + 1, DigitCommaToks)
       IN IF e = p + 1 THEN 0
          ELSE IF Tok(s, e) = "." /\ Tok(s, e + 1) \in DigitToks
                  /\ Tok(s, e + 2) \in DigitToks
               THEN e + 3
               ELSE e

\* /\b\d[\d,]*(?:\.\d+)?\b/
NumberAt(s, p) ==
  IF ~(Boundary(s, p) /\ Tok(s, p) \in DigitToks) THEN 0
  ELSE LET r == RunEnd(s, p + 1, DigitCommaToks)
           FracEnd(e) == RunEnd(s, e + 1, DigitToks)
           FracOK(e) == Tok(s, e) = "." /\ FracEnd(e) > e + 1
                        /\ Boundary(s, FracEnd(e))
           ok == {e \in (p + 1)..r : FracOK(e) \/ Boundary(s, e)}
       IN IF ok = {} THEN 0
          ELSE LET e == SetMax(ok)
               IN IF FracOK(e) THEN FracEnd(e) ELSE e

\* /\b\d+\s+(?:days?|sessions?|visits?|units?)\b/i, the unit words in units
CountAt(s, p, units) ==
  IF ~(Boundary(s, p) /\ Tok(s, p) \in DigitToks) THEN 0
  ELSE LET d == RunEnd(s, p, DigitToks)
           w == RunEnd(s, d, SpaceToks)
       IN IF w > d /\ Tok(s, w) \in units /\ Boundary(s, w + 1)
          THEN w + 1 ELSE 0

\* /\b\d{4}-\d{2}-\d{2}\b/
IsoDateAt(s, p) ==
  IF ~(Boundary(s, p) /\ Tok(s, p) \in DigitToks) THEN 0
  ELSE LET y == RunEnd(s, p, DigitToks)
           m == RunEnd(s, y + 1, DigitToks)
           d == RunEnd(s, m + 1, DigitToks)
       IN IF y - p = 4 /\ Tok(s, y) = "-" /\ m - (y + 1) = 2
             /\ Tok(s, m) = "-" /\ d - (m + 1) = 2 /\ Boundary(s, d)
          THEN d ELSE 0

\* /\b\d+%\b/
PercentAt(s, p) ==
  IF ~(Boundary(s, p) /\ Tok(s, p) \in DigitToks) THEN 0
  ELSE LET d == RunEnd(s, p, DigitToks)
       IN IF Tok(s, d) = "%" /\ Boundary(s, d + 1) THEN d + 1 ELSE 0

\* /\bCPT\s+\d{4,5}\b/i
CptAt(s, p) ==
  IF ~(Boundary(s, p) /\ Tok(s, p) = "CPT") THEN 0
  ELSE LET w == RunEnd(s, p + 1, SpaceToks)
           d == RunEnd(s, w, DigitToks)
       IN IF w > p + 1 /\ d - w \in {4, 5} /\ Boundary(s, d) THEN d ELSE 0

\* /\bICD-?\d+\b/i
IcdAt(s, p) ==
  IF ~(Boundary(s, p) /\ Tok(s, p) = "ICD") THEN 0
  ELSE LET q == IF Tok(s, p + 1) = "-" THEN p + 2 ELSE p + 1
           d == RunEnd(s, q, DigitToks)
       IN IF d > q /\ Boundary(s, d) THEN d ELSE 0

\* /\[NEEDS EVIDENCE:[^\]]+\]/i
MarkerAt(s, p) ==
  IF Tok(s, p) # NE THEN 0
  ELSE LET close == {j \in (p + 1)..Len(s) : s[j] = "]"}
       IN IF close = {} THEN 0
          ELSE IF SetMin(close) = p + 1 THEN 0 ELSE SetMin(close) + 1

MatchAt(kind, s, p) ==
  CASE kind = "dollar" -> DollarAt(s, p)
    [] kind = "number" -> NumberAt(s, p)
    [] kind = "count" -> CountAt(s, p, {"days", "sessions", "visits"})
    [] kind = "cpt" -> CptAt(s, p)
    [] kind = "marker" -> MarkerAt(s, p)

\* s.match(/.../g) ?? []: the matched texts, left to right, not overlapping
RECURSIVE MatchAllFrom(_, _, _)
MatchAllFrom(kind, s, p) ==
  IF p > Len(s) THEN <<>>
  ELSE LET e == MatchAt(kind, s, p)
       IN IF e = 0 THEN MatchAllFrom(kind, s, p + 1)
          ELSE <<SubSeq(s, p, e - 1)>> \o MatchAllFrom(kind, s, e)

MatchAll(kind, s) == MatchAllFrom(kind, s, 1)

\* NUMERIC_CLAIM_PATTERNS.some((re) => re.test(sentence)).  The patterns
\* for "dollars"/"USD", month names, "within" and "limited to" need words
\* that no text of this model contains.
hasNumericClaim(sentence) ==
  \E p \in 1..Len(sentence) :
    \/ DollarAt(sentence, p) # 0
    \/ IsoDateAt(sentence, p) # 0
    \/ CountAt(sentence, p, UnitToks) # 0
    \/ PercentAt(sentence, p) # 0
    \/ CptAt(sentence, p) # 0
    \/ IcdAt(sentence, p) # 0

\* ------------------------------------------------------------ the verifier
\* NEEDS_EVIDENCE_RE carries the g flag, so RegExp.prototype.test starts its
\* search at the expression's lastIndex (a character offset) and leaves
\* lastIndex after the match, or at 0 when nothing matches.  li is the
\* lastIndex before the call.
NeedsEvidenceMatch(s, li) ==
  LET at == {p \in 1..Len(s) : Offset(s, p) >= li /\ MarkerAt(s, p) # 0}
  IN IF at = {} THEN 0 ELSE SetMin(at)

hasNeedsEvidence(s, li) ==
  LET p == NeedsEvidenceMatch(s, li)
  IN [found |-> p # 0,
      lastIndex |-> IF p = 0 THEN 0 ELSE Offset(s, MarkerAt(s, p))]

RECURSIVE MapNeedle(_)
MapNeedle(ms) ==
  IF ms = <<>> THEN <<>>
  ELSE <<Trim(StripCpt(StripCommas(Head(ms))))>> \o MapNeedle(Tail(ms))

\* the values citationCoversValue looks for in the snippets
Needles(sentence) ==
  MapNeedle(MatchAll("dollar", sentence) \o MatchAll("number", sentence)
            \o MatchAll("cpt", sentence))

\* faulty variant: the early return for a section without citations is missing
CoversWithoutCitationGuard(sentence, citations) ==
  LET needles == Needles(sentence)
  IN IF Len(needles) = 0 THEN TRUE
     ELSE \E c \in 1..Len(citations), n \in 1..Len(needles) :
            /\ Len(needles[n]) > 0
            /\ Includes(StripCommas(citations[c].snippet), needles[n])

\* faulty variant: the snippet is searched with its commas left in
CoversWithSnippetCommas(sentence, citations) ==
  IF Len(citations) = 0 THEN FALSE
  ELSE LET needles == Needles(sentence)
       IN IF Len(needles) = 0 THEN TRUE
          ELSE \E c \in 1..Len(citations), n \in 1..Len(needles) :
                 /\ Len(needles[n]) > 0
                 /\ Includes(citations[c].snippet, needles[n])

\* faulty variant: a sentence without a value to look for counts as uncovered
CoversNothingWithoutValue(sentence, citations) ==
  IF Len(citations) = 0 THEN FALSE
  ELSE LET needles == Needles(sentence)
       IN IF Len(needles) = 0 THEN FALSE
          ELSE \E c \in 1..Len(citations), n \in 1..Len(needles) :
                 /\ Len(needles[n]) > 0
                 /\ Includes(StripCommas(citations[c].snippet), needles[n])

citationCoversValue(sentence, citations) ==
  IF Len(citations) = 0 THEN FALSE
  ELSE LET needles == Needles(sentence)
       IN IF Len(needles) = 0 THEN TRUE
          ELSE \E c \in 1..Len(citations), n \in 1..Len(needles) :
                 /\ Len(needles[n]) > 0
                 /\ Includes(StripCommas(citations[c].snippet), needles[n])

\* One attempt of the separator of splitSentences at token q:
\*   (?<=[.!?])\s+(?=[A-Z\[]) | (?<=\n)\s*(?=[A-Z\[]) | (?<=[:.])\n+
\* the index after the separator, or 0.
SeparatorAt(s, q) ==
  LET w == RunEnd(s, q, SpaceToks)
      n == RunEnd(s, q, {NL})
  IN IF Tok(s, q - 1) \in EnderToks /\ w > q /\ Tok(s, w) \in UpperOrBracketToks THEN w
     ELSE IF Tok(s, q - 1) = NL /\ Tok(s, w) \in UpperOrBracketToks THEN w
     ELSE IF Tok(s, q - 1) \in ColonOrDotToks /\ n > q THEN n
     ELSE 0

\* String.prototype.split: p is the end of the last separator, q the
\* position tried next; an empty separator at p is not a split.
RECURSIVE SplitFrom(_, _, _)
SplitFrom(s, p, q) ==
  IF q > Len(s) THEN <<SubSeq(s, p, Len(s))>>
  ELSE LET e == SeparatorAt(s, q)
       IN IF e = 0 \/ e = p THEN SplitFrom(s, p, q + 1)
          ELSE <<SubSeq(s, p, q - 1)>> \o SplitFrom(s, e, e)

RECURSIVE TrimAll(_)
TrimAll(ss) ==
  IF ss = <<>> THEN <<>>
  ELSE LET t == Trim(Head(ss))
       IN (IF t = <<>> THEN <<>> ELSE <<t>>) \o TrimAll(Tail(ss))

splitSentences(text) == TrimAll(SplitFrom(text, 1, 1))

\* GetSubstitution on a replacement string and a string pattern: "$$"
\* becomes "$"; "$" before a digit stays, there being no capture ("$&",
\* "$`" and "$'" need characters no text of this model contains).
RECURSIVE Substitute(_)
Substitute(r) ==
  IF r = <<>> THEN <<>>
  ELSE IF Head(r) = "$" /\ Len(r) >= 2 /\ r[2] = "$"
       THEN <<"$">> \o Substitute(SubSeq(r, 3, Len(r)))
       ELSE <<Head(r)>> \o Substitute(Tail(r))

\* content.replace(search, replacement) with a string pattern: the first
\* occurrence only
Replace(content, search, replacement) ==
  LET i == IndexOf(content, search)
  IN IF i = 0 THEN content
     ELSE SubSeq(content, 1, i - 1) \o Substitute(replacement)
          \o SubSeq(content, i + Len(search), Len(content))

\* xs.join(", ")
RECURSIVE Join(_)
Join(xs) ==
  IF xs = <<>> THEN <<>>
  ELSE IF Len(xs) = 1 THEN Head(xs)
  ELSE Head(xs) \o <<",", " ">> \o Join(Tail(xs))

numericValues(sentence) ==
  Join(MatchAll("dollar", sentence) \o MatchAll("count", sentence)
       \o MatchAll("cpt", sentence))

Placeholder(sentence) ==
  IF numericValues(sentence) # <<>>
  THEN <<NE, " ", SRC, " ">> \o numericValues(sentence) \o <<"]">>
  ELSE <<NE, " ", GEN, "]">>

SliceLimit == 80

\* sentence.slice(0, 80): the tokens that lie within the first 80 characters
Slice(s) ==
  LET fit == {i \in 0..Len(s) : Offset(s, i + 1) <= SliceLimit}
  IN SubSeq(s, 1, SetMax(fit))

\* A section is [id, title, content, citations, warnings]; a citation is
\* [snippet]; warnings absent (undefined) is the empty sequence.
SectionWarning(title) == [kind |-> "no citations and no placeholders", title |-> title]
ResultWarning(title) == [kind |-> "missing citations", title |-> title]
UnresolvedClaim(title, sentence) == [title |-> title, sentence |-> Slice(sentence)]

\* The loop over the sentences keeps acc = [content, unresolved, lastIndex,
\* steps]; steps records what each turn did.  A turn ends with this content
\* and this lastIndex:
Step(acc, sentence, outcome, content, li) ==
  [acc EXCEPT !.content = content,
              !.lastIndex = li,
              !.steps = Append(@, [sentence |-> sentence, outcome |-> outcome,
                                   content |-> content])]

\* the sentence is patched and reported (verify.ts 129-140)
Patch(acc, sentence, section, patched, li) ==
  [Step(acc, sentence, "patched", patched, li)
     EXCEPT !.unresolved = Append(@, UnresolvedClaim(section.title, sentence))]

\* the sentence has a numeric claim; t is what hasNeedsEvidence(sentence)
\* answered (verify.ts 119-141)
ClaimStep(acc, sentence, section, t) ==
  IF t.found THEN Step(acc, sentence, "flagged", acc.content, t.lastIndex)
  ELSE IF citationCoversValue(sentence, section.citations)
  THEN Step(acc, sentence, "covered", acc.content, t.lastIndex)
  ELSE Patch(acc, sentence, section,
             Replace(acc.content, sentence,
                     sentence \o <<" ">> \o Placeholder(sentence)),
             t.lastIndex)

\* one turn of the loop over the sentences (verify.ts 117-142)
SentenceStep(acc, sentence, section) ==
  IF ~hasNumericClaim(sentence)
  THEN Step(acc, sentence, "plain", acc.content, acc.lastIndex)
  ELSE ClaimStep(acc, sentence, section, hasNeedsEvidence(sentence, acc.lastIndex))

RECURSIVE SentenceLoop(_, _, _)
SentenceLoop(acc, sentences, section) ==
  IF sentences = <<>> THEN acc
  ELSE SentenceLoop(SentenceStep(acc, Head(sentences), section),
                    Tail(sentences), section)

\* content.split(/\n\n+/) (verify.ts 100; the code never reads the result)
RECURSIVE Paragraphs(_)
Paragraphs(s) ==
  LET at == {q \in 1..Len(s) : s[q] = NL /\ Tok(s, q + 1) = NL}
  IN IF at = {} THEN <<s>>
     ELSE LET q == SetMin(at)
          IN <<SubSeq(s, 1, q - 1)>>
             \o Paragraphs(SubSeq(s, RunEnd(s, q, {NL}), Len(s)))

\* hasCitationOrPlaceholder (verify.ts 101-102); found is what
\* hasNeedsEvidence(content) answered
hasCitationOrPlaceholder(citations, found) == Len(citations) > 0 \/ found

\* faulty variant: the negation of hasCitationOrPlaceholder is missing
Rule1WarnsInverted(section, found) ==
  /\ hasCitationOrPlaceholder(section.citations, found)
  /\ section.id # "header"
  /\ section.id # "closing"

\* the condition of the section-level warning (verify.ts 104)
Rule1Warns(section, found) ==
  /\ ~hasCitationOrPlaceholder(section.citations, found)
  /\ section.id # "header"
  /\ section.id # "closing"

\* What hasCitationOrPlaceholder learns from the content, entered with
\* lastIndex li: hasNeedsEvidence(content) is evaluated only when the section
\* has no citation (verify.ts 101-102).
Rule1Test(section, li) ==
  IF Len(section.citations) > 0 THEN [found |-> FALSE, lastIndex |-> li]
  ELSE hasNeedsEvidence(section.content, li)

\* the section pushed to the output and what it adds to the result
\* (verify.ts 105-110, 144-148)
SectionResult(section, warn, acc) ==
  [section |-> [section EXCEPT
                  !.content = acc.content,
                  !.warnings = IF warn THEN Append(@, SectionWarning(section.title))
                               ELSE @],
   unresolved |-> acc.unresolved,
   warnings |-> IF warn THEN <<ResultWarning(section.title)>> ELSE <<>>,
   lastIndex |-> acc.lastIndex,
   steps |-> acc.steps]

\* the body of the loop over the sections once rule 1 has tested the content
SectionBody(section, t) ==
  SectionResult(section, Rule1Warns(section, t.found),
                SentenceLoop([content |-> section.content, unresolved |-> <<>>,
                              lastIndex |-> t.lastIndex, steps |-> <<>>],
                             splitSentences(section.content), section))

\* The body of the loop over the sections (verify.ts 94-149), entered with
\* lastIndex li.
VerifySection(section, li) == SectionBody(section, Rule1Test(section, li))

\* the result so far with what section v adds
Merge(out, v) ==
  [sections |-> Append(out.sections, v.section),
   unresolvedClaims |-> out.unresolvedClaims \o v.unresolved,
   warnings |-> out.warnings \o v.warnings,
   steps |-> Append(out.steps, v.steps),
   lastIndex |-> v.lastIndex]

\* the loop over the sections; out.lastIndex is the lastIndex so far
RECURSIVE VerifyFrom(_, _)
VerifyFrom(sections, out) ==
  IF sections = <<>> THEN out
  ELSE VerifyFrom(Tail(sections),
                  Merge(out, VerifySection(Head(sections), out.lastIndex)))

NoResult ==
  [sections |-> <<>>, unresolvedClaims |-> <<>>, warnings |-> <<>>,
   steps |-> <<>>, lastIndex |-> 0]

\* verifySections entered with lastIndex li: the result, the steps taken in
\* each section, and the lastIndex the call leaves behind.
verifySections(sections, li) ==
  VerifyFrom(sections, [NoResult EXCEPT !.lastIndex = li])

\* collectMissingEvidence (verify.ts 157-167)
CleanMarker(m) ==
  LET body == SubSeq(m, RunEnd(m, 2, SpaceToks), Len(m))
      open == IF Tok(m, 1) = NE THEN body ELSE m
      shut == IF open # <<>> /\ open[Len(open)] = "]"
              THEN SubSeq(open, 1, Len(open) - 1) ELSE open
  IN Trim(shut)

\* faulty variant: every match is kept, seen before or not
RECURSIVE CollectMatchesKeepingAll(_, _)
CollectMatchesKeepingAll(matches, items) ==
  IF matches = <<>> THEN items
  ELSE CollectMatchesKeepingAll(Tail(matches), Append(items, CleanMarker(Head(matches))))

RECURSIVE CollectMatches(_, _)
CollectMatches(matches, items) ==
  IF matches = <<>> THEN items
  ELSE LET clean == CleanMarker(Head(matches))
       IN CollectMatches(Tail(matches),
                         IF \E i \in 1..Len(items) : items[i] = clean
                         THEN items ELSE Append(items, clean))

RECURSIVE CollectFrom(_, _)
CollectFrom(sections, items) ==
  IF sections = <<>> THEN items
  ELSE CollectFrom(Tail(sections),
                   CollectMatches(MatchAll("marker", Head(sections).content), items))

collectMissingEvidence(sections) == CollectFrom(sections, <<>>)

\* --------------------------------------------------------- the state machine
VARIABLES
  lastIndex,  \* NEEDS_EVIDENCE_RE.lastIndex, the module's only mutable state
  doc,        \* the caller's letter sections
  call,       \* the last call: "none", "verify", "reverify" or "collect"
  arg,        \* the sections the last call was given
  res,        \* the result of the last verifySections call
  prevArg,    \* the argument and the result of the verifySections call
  prevRes,    \*   before the last one
  entryIndex, \* lastIndex when the last verifySections call was entered
  missing,    \* the result of the last call, when it was collectMissingEvidence
  drafts,     \* generateAppealLetter: what the three drafters hand in
  letter,     \* generateAppealLetter: the letter it returned last
  chunkIn,    \* chunkText: its arguments [text, chunkSize, overlap]
  phase,      \* chunkText: "idle", "loop" (inside the while loop) or "done"
  pos,        \* chunkText: the cursor
  splitAt,    \* chunkText: where the last iteration split the text
  index,      \* chunkText: the index of the next chunk
  chunks,     \* chunkText: the chunks pushed so far; the result when done
  prevChunks, \* chunkText: <<the result of the call before>>, <<>> if none
  store,      \* knowledge base: the chunks joined with their documents, in
              \*   the order the database returns them
  kbCall,     \* knowledge base: "none", "search" (KBStore.search),
              \*   "kb.search" (the tool handler) or "retrieve"
  request,    \* knowledge base: the arguments of the last call
  results,    \* knowledge base: what the last call returned
  outcome,    \* knowledge base: "none", "ok", or "error" when the call threw
  docTable,   \* database: the rows of the table docs
  upsert,     \* database: the last upsertDoc call: its document id, whether
              \*   it committed, and whether other chunks of that id were
              \*   stored when it was made
  ingested,   \* history: for each document id, the chunks handed to the last
              \*   upsertDoc call of that id that committed
  cases,      \* database: the rows of the table cases
  saved,      \* history: for each case id, the cases of the appeal.generate
              \*   calls that asked to store them, in the order of the calls
  tool        \* the last appeal.generate / appeal.generateFromCaseId call

letterVars == <<drafts, letter>>
chunkVars == <<chunkIn, phase, pos, splitAt, index, chunks, prevChunks>>
kbVars == <<store, kbCall, request, results, outcome>>
dbVars == <<docTable, upsert, ingested, cases, saved, tool>>

vars == <<lastIndex, doc, call, arg, res, prevArg, prevRes, entryIndex, missing,
          letterVars, chunkVars, kbVars, dbVars>>

MaxWords == 3

\* the texts made of at most k words of V
RECURSIVE Texts(_, _)
Texts(V, k) ==
  IF k = 0 THEN {<<>>}
  ELSE LET T == Texts(V, k - 1) IN T \cup {t \o w : t \in T, w \in V}

SentenceWords == {<<"ICD", "4">>, <<"$", "4">>, <<".">>, <<NL>>, <<NE>>, <<"]">>}
ValueWords == {<<"4">>, <<",">>, <<" ">>, <<"days">>, <<"$">>}
CodeWords == {<<"CPT">>, <<" ">>, <<"4", "4", "4", "4">>, <<".">>}

SentenceTexts == Texts(SentenceWords, MaxWords)
ValueTexts == Texts(ValueWords, MaxWords)
CodeTexts == Texts(CodeWords, MaxWords)
Contents == SentenceTexts \cup ValueTexts \cup CodeTexts

Cite7 == [snippet |-> <<"7">>]
Cite44 == [snippet |-> <<"A", " ", "$", "4", ",", "4">>]
Cite4444 == [snippet |-> <<"4", ",", "4", "4", "4">>]
PriorWarning == [kind |-> "no KB citations", title |-> "Opening"]

Title(id) ==
  CASE id = "header" -> "Header" [] id = "closing" -> "Closing" [] OTHER -> "Opening"

\* who a content is given to: [id, citations, warnings]
Uncited == [id |-> "opening", citations |-> <<>>, warnings |-> <<>>]
Header == [id |-> "header", citations |-> <<>>, warnings |-> <<>>]
Closing == [id |-> "closing", citations |-> <<>>, warnings |-> <<PriorWarning>>]
CitedElsewhere == [id |-> "opening", citations |-> <<Cite7>>, warnings |-> <<>>]
CitedTwice == [id |-> "opening", citations |-> <<Cite7, Cite44>>, warnings |-> <<PriorWarning>>]
CitedCode == [id |-> "opening", citations |-> <<Cite4444>>, warnings |-> <<>>]

SectionsOf(P, C) ==
  { [id |-> p.id, title |-> Title(p.id), content |-> c, citations |-> p.citations,
     warnings |-> p.warnings] : p \in P, c \in C }

Sections ==
  SectionsOf({Uncited, CitedElsewhere}, Contents)
    \cup SectionsOf({Header, Closing}, SentenceTexts)
    \cup SectionsOf({CitedTwice}, ValueTexts)
    \cup SectionsOf({CitedCode}, CodeTexts)

\* a second section that carries a marker and no citation
MarkedSection ==
  [id |-> "grounds_for_appeal", title |-> "Grounds", content |-> <<NE, "$", "4", "]">>,
   citations |-> <<>>, warnings |-> <<>>]

Docs ==
  {<<s>> : s \in Sections}
    \cup {<<s, MarkedSection>> : s \in SectionsOf({Uncited}, SentenceTexts)}

\* no call of generateAppealLetter is under way
NoDrafts == [claude |-> <<>>, openai |-> <<>>, template |-> <<>>, inline |-> FALSE]
NoLetter == [sections |-> <<>>, fullText |-> <<>>, missingEvidence |-> <<>>]
LetterIdle == drafts = NoDrafts /\ letter = NoLetter

\* chunkText is not called
ChunkIdle ==
  /\ chunkIn = [text |-> <<>>, chunkSize |-> 0, overlap |-> 0]
  /\ phase = "idle"
  /\ pos = 0
  /\ splitAt = 0
  /\ index = 0
  /\ chunks = <<>>
  /\ prevChunks = <<>>

\* nothing is stored in the knowledge base and nothing was asked of it
NoRequest == [query |-> <<>>]
KbIdle ==
  /\ store = <<>>
  /\ kbCall = "none"
  /\ request = NoRequest
  /\ results = <<>>
  /\ outcome = "none"

\* the database holds no document and no case, and no tool was called
DocIds == {"d", "d1", "d2", "d3", "d4"}
CaseIds == {"c1", "c2"}
NoUpsert == [docId |-> "", ok |-> TRUE, superseding |-> FALSE]
NoTool ==
  [name |-> "none", caseId |-> "", flag |-> <<>>, outcome |-> "none", used |-> <<>>]
DbIdle ==
  /\ docTable = {}
  /\ upsert = NoUpsert
  /\ ingested = [id \in DocIds |-> <<>>]
  /\ cases = {}
  /\ saved = [id \in CaseIds |-> <<>>]
  /\ tool = NoTool

\* the module is loaded and nothing has been called
Fresh ==
  /\ lastIndex = 0
  /\ call = "none"
  /\ arg = <<>>
  /\ res = NoResult
  /\ prevArg = <<>>
  /\ prevRes = NoResult
  /\ entryIndex = 0
  /\ missing = <<>>

Init ==
  /\ doc \in Docs
  /\ Fresh
  /\ LetterIdle
  /\ ChunkIdle
  /\ KbIdle
  /\ DbIdle

\* a call verifySections(sections)
Call(sections, name) ==
  /\ res' = verifySections(sections, lastIndex)
  /\ lastIndex' = res'.lastIndex
  /\ arg' = sections
  /\ call' = name
  /\ prevArg' = arg
  /\ prevRes' = res
  /\ entryIndex' = lastIndex
  /\ missing' = <<>>
  /\ UNCHANGED <<doc, letterVars, chunkVars, kbVars, dbVars>>

\* the caller verifies its sections
Verify == call # "collect" /\ Call(doc, "verify")

\* the caller verifies again what its verification returned
Reverify == call = "verify" /\ Call(res.sections, "reverify")

\* collectMissingEvidence on the caller's sections, or on the verified ones
Collect ==
  /\ call # "collect"
  /\ call' = "collect"
  /\ arg' = IF call = "none" THEN doc ELSE res.sections
  /\ missing' = collectMissingEvidence(arg')
  /\ UNCHANGED <<lastIndex, doc, res, prevArg, prevRes, entryIndex, letterVars,
                 chunkVars, kbVars, dbVars>>

Next == Verify \/ Reverify \/ Collect

Spec == Init /\ [][Next]_vars

\* ------------------------------------------------- generateAppealLetter
\* (unnamed/part_000 826-902; the earlier variant, 1629-1691, has one LLM
\* drafter instead of two and is otherwise the same)
CITE == "[CITE:"   \* an inline tag "[CITE:kind:docId:start-end]" (part_000 58-60)
RULE == "RULE"     \* the rule of forty dashes between two sections

MinSections == 5

inlineTag(citation) == <<CITE>>

\* s.citations.map(inlineTag).join(" ")
RECURSIVE JoinTags(_)
JoinTags(citations) ==
  IF citations = <<>> THEN <<>>
  ELSE IF Len(citations) = 1 THEN inlineTag(citations[1])
  ELSE inlineTag(citations[1]) \o <<" ">> \o JoinTags(Tail(citations))

\* the text of one section in fullText (part_000 814-819)
SectionText(section, includeCitationsInline) ==
  IF includeCitationsInline /\ Len(section.citations) > 0
  THEN section.content \o <<NL>> \o JoinTags(section.citations)
  ELSE section.content

\* assembleFullText (part_000 808-822)
RECURSIVE assembleFullText(_, _)
assembleFullText(sections, includeCitationsInline) ==
  IF sections = <<>> THEN <<>>
  ELSE IF Len(sections) = 1 THEN SectionText(sections[1], includeCitationsInline)
  ELSE SectionText(sections[1], includeCitationsInline)
         \o <<NL, NL, RULE, NL, NL>>
         \o assembleFullText(Tail(sections), includeCitationsInline)

\* Prefer Claude, then OpenAI, then the templates (part_000 842-864); a
\* drafter that returned null is the empty list here, both fail the test
\* "sections && sections.length >= 5".
ChosenSections(d) ==
  IF Len(d.claude) >= MinSections THEN d.claude
  ELSE IF Len(d.openai) >= MinSections THEN d.openai
  ELSE d.template

\* faulty variant: the missing-evidence list is left empty
LetterWithoutMissingEvidence(verifiedSections, includeCitationsInline) ==
  [sections |-> verifiedSections,
   fullText |-> assembleFullText(verifiedSections, includeCitationsInline),
   missingEvidence |-> <<>>]

\* the letter built from the verified sections (part_000 869-899)
LetterOf(verifiedSections, includeCitationsInline) ==
  [sections |-> verifiedSections,
   fullText |-> assembleFullText(verifiedSections, includeCitationsInline),
   missingEvidence |-> collectMissingEvidence(verifiedSections)]

\* the drafts: one section under test among fixed ones
PlainSection == [id |-> "closing", title |-> "Closing", content |-> <<".">>,
                 citations |-> <<>>, warnings |-> <<>>]
OtherSection == [id |-> "opening", title |-> "Opening", content |-> <<"A">>,
                 citations |-> <<Cite7>>, warnings |-> <<>>]
LlmDraft(s) == <<s, PlainSection, OtherSection, PlainSection, PlainSection>>
ShortDraft(s) == <<s, PlainSection>>
\* the eight sections of the template builders, with their ids
\* (part_000 853-862)
Built(id, section) == [section EXCEPT !.id = id]
TemplateDraft(s) ==
  <<Built("header", PlainSection), Built("opening", s),
    Built("denial_codes", OtherSection), Built("clinical_context", PlainSection),
    Built("grounds_for_appeal", PlainSection), Built("attachments", PlainSection),
    Built("extraction_verification", PlainSection), Built("closing", PlainSection)>>

DraftedSections ==
  SectionsOf({Uncited}, SentenceTexts) \cup SectionsOf({CitedTwice}, ValueTexts)

DraftsOf(s) ==
  { [claude |-> LlmDraft(s), openai |-> LlmDraft(OtherSection),
     template |-> TemplateDraft(OtherSection)],
    [claude |-> <<>>, openai |-> LlmDraft(s),
     template |-> TemplateDraft(OtherSection)],
    [claude |-> ShortDraft(OtherSection), openai |-> <<>>,
     template |-> TemplateDraft(s)],
    [claude |-> <<>>, openai |-> ShortDraft(OtherSection),
     template |-> TemplateDraft(s)] }

Drafts ==
  { [claude |-> d.claude, openai |-> d.openai, template |-> d.template,
     inline |-> b] : d \in UNION {DraftsOf(s) : s \in DraftedSections},
                     b \in BOOLEAN }

LetterInit ==
  /\ doc = <<>>
  /\ Fresh
  /\ drafts \in Drafts
  /\ letter = NoLetter
  /\ ChunkIdle
  /\ KbIdle
  /\ DbIdle

\* generateAppealLetter, from the drafts to the returned letter
Generating ==
  /\ arg' = ChosenSections(drafts)
  /\ res' = verifySections(arg', lastIndex)
  /\ lastIndex' = res'.lastIndex
  /\ letter' = LetterOf(res'.sections, drafts.inline)
  /\ call' = "generate"
  /\ prevArg' = arg
  /\ prevRes' = res
  /\ entryIndex' = lastIndex
  /\ missing' = <<>>

Generate ==
  /\ Generating
  /\ UNCHANGED <<doc, drafts, chunkVars, kbVars, dbVars>>

LetterNext == Generate

LetterSpec == LetterInit /\ [][LetterNext]_vars

\* ------------------------------------------------------------- chunkText
\* (appeal-writer-mcp/src/utils/chunker.ts 17-66).  A text is a sequence of
\* characters; offsets count from 0 as in the code.
Tolerance == 200

Max(a, b) == IF a >= b THEN a ELSE b
Min(a, b) == IF a <= b THEN a ELSE b

UpperToks == {"A"}

\* text.slice(from, to) for 0 <= from <= to
Substring(text, from, to) == SubSeq(text, from + 1, to)

\* window.lastIndexOf(pattern), -1 when absent
LastIndexOf(window, pattern) ==
  LET at == {i \in 0..(Len(window) - Len(pattern)) :
               Substring(window, i, i + Len(pattern)) = pattern}
  IN IF at = {} THEN -1 ELSE SetMax(at)

\* window.search(/[.!?]\s+[A-Z]/), -1 when absent
SentenceBreak(window) ==
  LET at == {i \in 0..(Len(window) - 1) :
               /\ window[i + 1] \in EnderToks
               /\ Tok(window, i + 2) \in SpaceToks
               /\ Tok(window, RunEnd(window, i + 2, SpaceToks)) \in UpperToks}
  IN IF at = {} THEN -1 ELSE SetMin(at)

\* faulty variant: the latest of the three breaks is taken
BreakInLatest(window) ==
  IF Max(LastIndexOf(window, <<NL, NL>>) + 2,
         Max(SentenceBreak(window) + 1, LastIndexOf(window, <<" ">>) + 1)) <= 0
  THEN -1
  ELSE Max(LastIndexOf(window, <<NL, NL>>) + 2,
           Max(SentenceBreak(window) + 1, LastIndexOf(window, <<" ">>) + 1))

\* where the natural break of the window lies, counted from the window's
\* start: paragraph, else sentence, else space; -1 when it has none
\* (chunker.ts 35-46)
BreakIn(window) ==
  IF LastIndexOf(window, <<NL, NL>>) # -1 THEN LastIndexOf(window, <<NL, NL>>) + 2
  ELSE IF SentenceBreak(window) # -1 THEN SentenceBreak(window) + 1
  ELSE IF LastIndexOf(window, <<" ">>) # -1 THEN LastIndexOf(window, <<" ">>) + 1
  ELSE -1

\* faulty variant: a break is given up only below 40% of chunkSize
SplitWithStrictMinimum(chunkSize, cursor, end, base, break) ==
  IF break = -1 \/ 10 * (base + break - cursor) < 4 * chunkSize
  THEN end
  ELSE base + break

\* splitAt once the break of the window is known (chunker.ts 39-51)
SplitWith(chunkSize, cursor, end, base, break) ==
  IF (IF break = -1 THEN end ELSE base + break) <= cursor + (chunkSize * 4) \div 10
  THEN end
  ELSE IF break = -1 THEN end ELSE base + break

\* splitAt of the iteration that starts at cursor (chunker.ts 29-52)
SplitAt(text, chunkSize, cursor, end) ==
  IF end < Len(text)
  THEN SplitWith(chunkSize, cursor, end, Max(end - Tolerance, cursor),
                 BreakIn(Substring(text, Max(end - Tolerance, cursor), end)))
  ELSE end

\* faulty variant: the cursor jumps over the character after the split
NextPosSkipping(split, overlap, cursor) == Max(split + 1, cursor + 1)

\* faulty variant: the cursor is not forced forward
NextPosWithoutProgress(split, overlap, cursor) == Max(split - overlap, cursor)

\* Advance with overlap (chunker.ts 61)
NextPos(split, overlap, cursor) == Max(split - overlap, cursor + 1)

\* faulty variant: the chunk index is kept from the call before
InitialIndexKept == index

\* let index = 0 (chunker.ts 26)
InitialIndex == 0

\* faulty variant: a white-space piece is pushed too
PushedAlways(piece, start, end) ==
  Append(chunks, [index |-> index, text |-> piece, start |-> start, end |-> end])

\* chunks after the iteration that cut piece out of the text (chunker.ts 54-58)
Pushed(piece, start, end) ==
  IF piece # <<>>
  THEN Append(chunks, [index |-> index, text |-> piece, start |-> start, end |-> end])
  ELSE chunks

MaxChunkSize == 5
MaxOverlap == 3

ChunkWords == {<<"A">>, <<" ">>, <<".", " ", "A">>, <<NL, NL>>}
ChunkTexts == Texts(ChunkWords, MaxWords)

ChunkInputs ==
  [text : ChunkTexts, chunkSize : 0..MaxChunkSize, overlap : 0..MaxOverlap]

ChunkInit ==
  /\ doc = <<>>
  /\ Fresh
  /\ LetterIdle
  /\ ChunkIdle
  /\ KbIdle
  /\ DbIdle

\* chunkText is entered: the early return for an empty or white-space text,
\* or the start of the loop (chunker.ts 22-28)
Enter(text) ==
  /\ chunks' = <<>>
  /\ pos' = 0
  /\ splitAt' = 0
  /\ index' = InitialIndex
  /\ phase' = IF Trim(text) = <<>> THEN "done" ELSE "loop"
  /\ UNCHANGED <<lastIndex, doc, call, arg, res, prevArg, prevRes, entryIndex,
                 missing, letterVars, kbVars, dbVars>>

\* a first call of chunkText
ChunkCall ==
  /\ phase = "idle"
  /\ chunkIn' \in ChunkInputs
  /\ prevChunks' = <<>>
  /\ Enter(chunkIn'.text)

\* a call with the arguments of the call before
ChunkAgain ==
  /\ phase = "done"
  /\ chunkIn' = chunkIn
  /\ prevChunks' = <<chunks>>
  /\ Enter(chunkIn.text)

\* one iteration of the while loop (chunker.ts 28-63)
ChunkLoop ==
  /\ phase = "loop"
  /\ splitAt' = SplitAt(chunkIn.text, chunkIn.chunkSize, pos,
                        Min(pos + chunkIn.chunkSize, Len(chunkIn.text)))
  /\ chunks' = Pushed(Trim(Substring(chunkIn.text, pos, splitAt')), pos, splitAt')
  /\ index' = Len(chunks') - Len(chunks) + index
  /\ pos' = NextPos(splitAt', chunkIn.overlap, pos)
  /\ phase' = IF pos' >= Len(chunkIn.text) THEN "done" ELSE "loop"
  /\ UNCHANGED <<chunkIn, prevChunks, lastIndex, doc, call, arg, res, prevArg,
                 prevRes, entryIndex, missing, letterVars, kbVars, dbVars>>

ChunkNext == ChunkCall \/ ChunkAgain \/ ChunkLoop

\* a call of chunkText runs its loop to the end
ChunkSpec == ChunkInit /\ [][ChunkNext]_vars /\ WF_vars(ChunkLoop)

\* ------------------------------------------------------------ kb/tfidf.ts
(***************************************************************************)
(* Retrieval over the knowledge base.  A query or a chunk text is a        *)
(* sequence of words separated by white-space tokens.  Weights are fixed   *)
(* point numbers: a term weight is counted in hundredths, a cosine score   *)
(* in thousandths, and the score a search returns in ten-thousandths, so   *)
(* that the tag boost (1 + 0.1 x matches) is a multiplication by           *)
(* 10 + matches.                                                           *)
(***************************************************************************)
STOP_WORDS ==
  {"a", "an", "the", "and", "or", "but", "in", "on", "at", "to", "for", "of",
   "with", "by", "from", "up", "about", "into", "through", "during", "is",
   "are", "was", "were", "be", "been", "being", "have", "has", "had", "do",
   "does", "did", "will", "would", "could", "should", "may", "might", "shall",
   "can", "not", "no", "nor", "so", "yet", "both", "either", "neither",
   "each", "few", "more", "most", "other", "some", "such", "than", "too",
   "very", "just", "as", "if", "then", "that", "this", "these", "those", "it",
   "its", "he", "she", "they", "we", "you", "i", "me", "my", "our", "your",
   "their", "his", "her", "which", "who", "whom", "what", "when", "where",
   "why", "how"}

\* toLowerCase, then every character outside [a-z0-9\s\-#] becomes a space:
\* what one word of a text turns into
Lowered(w) ==
  CASE w = "PT" -> <<"pt">>
    [] w = "The" -> <<"the">>
    [] w = "Aetna" -> <<"aetna">>
    [] w = "CPB0325" -> <<"cpb0325">>
    [] w = "benefit_limit" -> <<"benefit", "limit">>
    [] w = "limit." -> <<"limit">>
    [] OTHER -> <<w>>

\* w.length, for the words the texts are made of
Letters(w) == IF w \in {"x", "#", "-"} THEN 1 ELSE 2

\* text.toLowerCase().replace(...).split(/\s+/)
RECURSIVE SplitWords(_)
SplitWords(text) ==
  IF text = <<>> THEN <<>>
  ELSE (IF Head(text) \in SpaceToks THEN <<>> ELSE Lowered(Head(text)))
       \o SplitWords(Tail(text))

KeptWord(w) == Letters(w) > 1 /\ w \notin STOP_WORDS

\* the words and, after them, the pairs of neighbouring words; a term is the
\* sequence of its words, <<a, b>> standing for the bigram "a_b"
WithBigrams(words) ==
  IF words = <<>> THEN <<>>
  ELSE [i \in 1..Len(words) |-> <<words[i]>>]
         \o [i \in 1..(Len(words) - 1) |-> <<words[i], words[i + 1]>>]

tokenize(text) == WithBigrams(SelectSeq(SplitWords(text), KeptWord))

\* 100 x Math.log(n), rounded
Ln(n) ==
  CASE n = 1 -> 0
    [] n = 2 -> 69
    [] n = 3 -> 110
    [] n = 4 -> 139
    [] n = 5 -> 161
    [] n = 6 -> 179
    [] n = 7 -> 195
    [] n = 8 -> 208
    [] n = 9 -> 220
    [] n = 10 -> 230

\* a vector is a function from its terms to their weights
Occurrences(t, tokens) == Cardinality({i \in DOMAIN tokens : tokens[i] = t})

computeTF(tokens) ==
  [t \in {tokens[i] : i \in DOMAIN tokens} |-> Ln(1 + Occurrences(t, tokens))]

Carriers(t, allVectors) ==
  Cardinality({i \in DOMAIN allVectors : t \in DOMAIN allVectors[i]})

\* Math.log((N + 1) / (count + 1)) + 1
computeIDF(allVectors) ==
  [t \in UNION {DOMAIN allVectors[i] : i \in DOMAIN allVectors} |->
     Ln(Len(allVectors) + 1) - Ln(Carriers(t, allVectors) + 1) + 100]

Weighted(tf, idf) ==
  [t \in DOMAIN tf |->
     (tf[t] * (IF t \in DOMAIN idf THEN idf[t] ELSE Ln(2))) \div 100]

buildVector(text, idf) == Weighted(computeTF(tokenize(text)), idf)

RECURSIVE Dot(_, _, _)
Dot(a, b, terms) ==
  IF terms = {} THEN 0
  ELSE LET t == CHOOSE u \in terms : TRUE
       IN a[t] * b[t] + Dot(a, b, terms \ {t})

\* Math.sqrt, rounded down: the largest r in lo..hi with r * r <= n
RECURSIVE SqrtBetween(_, _, _)
SqrtBetween(n, lo, hi) ==
  IF lo >= hi THEN lo
  ELSE IF ((lo + hi + 1) \div 2) * ((lo + hi + 1) \div 2) <= n
       THEN SqrtBetween(n, (lo + hi + 1) \div 2, hi)
       ELSE SqrtBetween(n, lo, ((lo + hi + 1) \div 2) - 1)

Sqrt(n) == SqrtBetween(n, 0, 4096)

Quotient(dot, denom) == IF denom = 0 THEN 0 ELSE (dot * 1000) \div denom

cosineSimilarity(a, b) ==
  Quotient(Dot(a, b, DOMAIN a \cap DOMAIN b),
           Sqrt(Dot(a, a, DOMAIN a)) * Sqrt(Dot(b, b, DOMAIN b)))

scoreQuery(query, storedVector, idf) ==
  cosineSimilarity(buildVector(query, idf), storedVector)

buildTFVector(text) == computeTF(tokenize(text))

\* ------------------------------------------------------------- kb/store.ts
\* a value that may be absent is null or undefined when it is a string;
\* a list or a number that may be absent is <<v>>, and <<>> when absent
null == "<null>"
undefined == "<undefined>"

\* if (v): a filter that is absent or the empty string is not applied
Truthy(v) == v # undefined /\ v # ""

\* the WHERE clause of the query over chunks joined with docs
Admits(filters, row) ==
  /\ Truthy(filters.payerName) => row.payerName \in {null, filters.payerName}
  /\ Truthy(filters.docType) => row.docType = filters.docType

\* faulty variant: the filters are not applied
RowsUnfiltered(st, filters) == st

Rows(st, filters) == SelectSeq(st, LAMBDA row : Admits(filters, row))

\* filters.tags.filter((t) => docTags.includes(t)).length
Matches(tags, docTags) ==
  Cardinality({i \in DOMAIN tags :
                 tags[i] \in {docTags[j] : j \in DOMAIN docTags}})

\* faulty variant: the boost of a matching tag is dropped
BoostIgnoringTags(score, tags, docTags) == score * 10

\* score *= 1 + matches * 0.1, in ten-thousandths
Boost(score, tags, docTags) ==
  IF tags # <<>> /\ Len(tags[1]) > 0 /\ Matches(tags[1], docTags) > 0
  THEN score * (10 + Matches(tags[1], docTags))
  ELSE score * 10

Vectors(rows) == [i \in DOMAIN rows |-> rows[i].vector]

Scored(rows, query, filters, idf) ==
  [i \in DOMAIN rows |->
     [row |-> rows[i],
      score |-> Boost(scoreQuery(query, rows[i].vector, idf), filters.tags,
                      rows[i].tags)]]

\* faulty variant: an entry is put before the entries of its own score
RECURSIVE InsertBeforeEqual(_, _)
InsertBeforeEqual(x, sorted) ==
  IF sorted = <<>> THEN <<x>>
  ELSE IF Head(sorted).score <= x.score THEN <<x>> \o sorted
  ELSE <<Head(sorted)>> \o InsertBeforeEqual(x, Tail(sorted))

\* sort((a, b) => b.score - a.score): Array.prototype.sort is stable, so an
\* entry goes after the entries that score at least as much
RECURSIVE Insert(_, _)
Insert(x, sorted) ==
  IF sorted = <<>> THEN <<x>>
  ELSE IF Head(sorted).score < x.score THEN <<x>> \o sorted
  ELSE <<Head(sorted)>> \o Insert(x, Tail(sorted))

RECURSIVE SortByScore(_)
SortByScore(s) ==
  IF s = <<>> THEN <<>>
  ELSE Insert(s[Len(s)], SortByScore(SubSeq(s, 1, Len(s) - 1)))

\* faulty variant: the sorted list is returned whole
TopRowsUncut(s, k) == s

\* slice(0, k), for k >= 0
TopRows(s, k) == SubSeq(s, 1, Min(k, Len(s)))

RetrievedChunk(row, score) ==
  [chunkId |-> row.chunkId,
   docId |-> row.docId,
   text |-> row.text,
   score |-> score,
   meta |-> [payerName |-> IF row.payerName = null THEN undefined
                           ELSE row.payerName,
             docType |-> row.docType,
             tags |-> row.tags]]

Returned(topRows) ==
  [i \in DOMAIN topRows |-> RetrievedChunk(topRows[i].row, topRows[i].score)]

SearchRows(rows, query, filters, topK) ==
  IF rows = <<>> THEN <<>>
  ELSE Returned(TopRows(SortByScore(Scored(rows, query, filters,
                                           computeIDF(Vectors(rows)))),
                        topK))

\* KBStore.search
search(st, query, filters, topK) ==
  SearchRows(Rows(st, filters), query, filters, topK)

\* ------------------------------------------------------------ kb/ingest.ts
searchKB(st, query, filters, topK) == search(st, query, filters, topK)

\* a string as a text: the empty string has no token
Str(w) == IF w = "" THEN <<>> ELSE <<w>>

\* words.join(" ")
RECURSIVE JoinSpaced(_)
JoinSpaced(words) ==
  IF words = <<>> THEN <<>>
  ELSE IF Len(words) = 1 THEN Str(Head(words))
  ELSE Str(Head(words)) \o <<" ">> \o JoinSpaced(Tail(words))

RECURSIVE FlatCodes(_)
FlatCodes(services) ==
  IF services = <<>> THEN <<>>
  ELSE Head(services).cptCodes \o FlatCodes(Tail(services))

ServiceNames(services) == [i \in DOMAIN services |-> services[i].serviceName]

NoFilters == [payerName |-> undefined, docType |-> undefined, tags |-> <<>>]

\* value ?? fallback
OrElse(value, fallback) == IF value = null THEN fallback ELSE value

\* the targeted queries of retrieveForCase (ingest.ts 202-250), given
\* payer ?? "", category, cptCodes, policyRefs and serviceName
TargetedQueries(payer, category, cptCodes, policyRefs, serviceName) ==
  << [q |-> Trim(Str(payer) \o <<" ">> \o policyRefs \o <<" ">> \o Str(category)
                 \o <<" ", "denial", " ", "appeal">>),
      filters |-> [NoFilters EXCEPT
                     !.payerName = IF payer = "" THEN undefined ELSE payer]],
     [q |-> cptCodes \o <<" ">> \o Str(category)
            \o <<" ", "appeal", " ", "medical", " ", "necessity", " ",
                 "functional", " ", "improvement">>,
      filters |-> NoFilters],
     [q |-> Trim(Str(payer) \o <<" ">> \o serviceName
                 \o <<" ", "successful", " ", "appeal", " ">> \o Str(category)),
      filters |-> [NoFilters EXCEPT
                     !.docType = "prior_appeal_accepted",
                     !.payerName = IF payer = "" THEN undefined ELSE payer]] >>
  \o (IF policyRefs # <<>>
      THEN << [q |-> policyRefs,
               filters |-> [NoFilters EXCEPT !.docType = "policy"]] >>
      ELSE <<>>)
  \o << [q |-> serviceName \o <<" ">> \o Str(category)
               \o <<" ", "clinical", " ", "documentation", " ", "sessions",
                    " ", "benefit", " ", "limit">>,
         filters |-> [NoFilters EXCEPT !.docType = "clinical"]],
        [q |-> Str(category)
               \o <<" ", "appeal", " ", "letter", " ", "template">>,
         filters |-> [NoFilters EXCEPT !.docType = "template"]] >>

QueriesFor(denialCase) ==
  TargetedQueries(OrElse(denialCase.payerName, ""),
                  OrElse(denialCase.denialCategory, "other"),
                  JoinSpaced(FlatCodes(denialCase.services)),
                  JoinSpaced(denialCase.policyReferences),
                  JoinSpaced(ServiceNames(denialCase.services)))

Position(seen, cid) ==
  {i \in DOMAIN seen : seen[i].chunkId = cid}

\* faulty variant: the chunk seen last replaces the one seen before
SetLast(seen, chunk, at) ==
  IF at = {} THEN Append(seen, chunk)
  ELSE [seen EXCEPT ![CHOOSE i \in at : TRUE] = chunk]

\* if (!existing || chunk.score > existing.score) seen.set(chunk.chunkId, chunk)
SetBest(seen, chunk, at) ==
  IF at = {} THEN Append(seen, chunk)
  ELSE IF chunk.score > seen[CHOOSE i \in at : TRUE].score
       THEN [seen EXCEPT ![CHOOSE i \in at : TRUE] = chunk]
       ELSE seen

RECURSIVE SeenAfter(_, _)
SeenAfter(seen, found) ==
  IF found = <<>> THEN seen
  ELSE SeenAfter(SetBest(seen, Head(found), Position(seen, Head(found).chunkId)),
                 Tail(found))

RECURSIVE RunQueries(_, _, _, _)
RunQueries(st, queries, topKPerQuery, seen) ==
  IF queries = <<>> THEN seen
  ELSE IF Trim(Head(queries).q) = <<>>
       THEN RunQueries(st, Tail(queries), topKPerQuery, seen)
       ELSE RunQueries(st, Tail(queries), topKPerQuery,
                       SeenAfter(seen, search(st, Head(queries).q,
                                              Head(queries).filters,
                                              topKPerQuery)))

retrieveForCase(st, denialCase, topKPerQuery, maxTotal) ==
  TopRows(SortByScore(RunQueries(st, QueriesFor(denialCase), topKPerQuery, <<>>)),
          maxTotal)

\* ------------------------------------------------- the knowledge base calls
MaxRows == 4
MaxTopK == 3
DefaultTopK == 8

\* the documents that are ingested: their metadata and the texts of their
\* chunks; the chunks of document d4 carry a dense embedding in place of a
\* term vector (ingest.ts 143-148)
KbDocs ==
  { [docId |-> "d1", payerName |-> null, docType |-> "policy",
     tags |-> <<"pt">>,
     texts |-> << <<"PT", " ", "limit">>,
                  <<"The", " ", "appeal", " ", "x", " ", "denial">> >>,
     embedded |-> FALSE],
    [docId |-> "d2", payerName |-> "Aetna", docType |-> "clinical",
     tags |-> <<"pt", "appeals">>,
     texts |-> << <<"PT", " ", "limit.">> >>,
     embedded |-> FALSE],
    [docId |-> "d3", payerName |-> "Cigna", docType |-> "policy",
     tags |-> <<>>,
     texts |-> << <<"PT", " ", "PT", " ", "appeal">> >>,
     embedded |-> FALSE],
    [docId |-> "d4", payerName |-> "Aetna", docType |-> "prior_appeal_accepted",
     tags |-> <<"appeals">>,
     texts |-> << <<"denial", " ", "appeal">> >>,
     embedded |-> TRUE] }

\* JSON.parse of a stored embedding read as a term vector: its keys are the
\* array indices
Embedding == [t \in {<<"0">>, <<"1">>} |-> 50]

\* chunkId (index.ts 452-454): "chk_" and the digest of docId + String(index).
\* shortHash is taken to be free of collisions: a digest is named by the
\* string it was computed from.
chunkId(docId, chunkIndex) == "chk_" \o docId \o ToString(chunkIndex)

\* the chunk records ingestDocuments builds (ingest.ts 139-160), joined with
\* the document's row as the query of search reads them
RowsOf(d) ==
  [i \in DOMAIN d.texts |->
     [chunkId |-> chunkId(d.docId, i - 1),
      docId |-> d.docId,
      text |-> d.texts[i],
      vector |-> IF d.embedded THEN Embedding ELSE buildTFVector(d.texts[i]),
      payerName |-> d.payerName,
      docType |-> d.docType,
      tags |-> d.tags]]

Queries ==
  { <<>>, <<" ">>, <<"PT", " ", "limit">>, <<"The", " ", "appeal">> }

Filters ==
  [payerName : {undefined, "", "Aetna"},
   docType : {undefined, "policy"},
   tags : {<<>>, << <<>> >>, << <<"pt">> >>, << <<"appeals", "pt", "pt">> >>}]

Requests == [query : Queries, filters : Filters, topK : 0..MaxTopK]

\* the tool hands its filters on as they are: those without tags are tried
ToolRequests ==
  [query : Queries,
   filters : {f \in Filters : f.tags = <<>>},
   options : {<<>>} \cup {<<k>> : k \in 0..MaxTopK}]

DenialCases ==
  [payerName : {null, "Aetna"},
   denialCategory : {null, "benefit_limit"},
   services : {<<>>, << [cptCodes |-> <<"97110">>, serviceName |-> "PT"] >>},
   policyReferences : {<<>>, <<"", "">>, <<"CPB0325">>}]

RetrieveRequests ==
  [denialCase : DenialCases, topKPerQuery : 1..MaxTopK, maxTotal : 0..MaxTopK]

KbInit ==
  /\ doc = <<>>
  /\ Fresh
  /\ LetterIdle
  /\ ChunkIdle
  /\ KbIdle
  /\ DbIdle

\* the row of the table docs written for a document
DocRow(d) ==
  [docId |-> d.docId, payerName |-> d.payerName, docType |-> d.docType,
   tags |-> d.tags]

\* INSERT INTO docs ... ON CONFLICT(docId) DO UPDATE
DocUpserted(table, d) == {row \in table : row.docId # d.docId} \cup {DocRow(d)}

\* DELETE FROM chunks WHERE docId = ?
ChunksDeleted(rows, docId) == SelectSeq(rows, LAMBDA row : row.docId # docId)

\* INSERT INTO chunks, one chunk after the other: chunkId is the PRIMARY KEY
\* of the table, an insert under a chunkId that is stored throws
RECURSIVE InsertChunks(_, _)
InsertChunks(rows, new) ==
  IF new = <<>> THEN [ok |-> TRUE, rows |-> rows]
  ELSE IF \E i \in DOMAIN rows : rows[i].chunkId = Head(new).chunkId
       THEN [ok |-> FALSE, rows |-> rows]
       ELSE InsertChunks(Append(rows, Head(new)), Tail(new))

\* INSERT OR REPLACE in place of INSERT: a stored row of the same chunkId
\* gives way
RECURSIVE ReplaceChunks(_, _)
ReplaceChunks(rows, new) ==
  IF new = <<>> THEN rows
  ELSE ReplaceChunks(
         Append(SelectSeq(rows, LAMBDA row : row.chunkId # Head(new).chunkId),
                Head(new)),
         Tail(new))

\* faulty variant: the chunks of the document are not deleted first
upsertDocKeepingChunks(table, rows, d, new) ==
  [ok |-> TRUE, docs |-> DocUpserted(table, d), chunks |-> ReplaceChunks(rows, new)]

\* faulty variant: the statements run outside a transaction
upsertDocUnrolled(table, rows, d, new) ==
  [ok |-> InsertChunks(ChunksDeleted(rows, d.docId), new).ok,
   docs |-> DocUpserted(table, d),
   chunks |-> InsertChunks(ChunksDeleted(rows, d.docId), new).rows]

\* KBStore.upsertDoc (store.ts 80-117): the three statements run in one
\* transaction, which is rolled back when a statement throws
upsertDoc(table, rows, d, new) ==
  IF InsertChunks(ChunksDeleted(rows, d.docId), new).ok
  THEN [ok |-> TRUE, docs |-> DocUpserted(table, d),
        chunks |-> InsertChunks(ChunksDeleted(rows, d.docId), new).rows]
  ELSE [ok |-> FALSE, docs |-> table, chunks |-> rows]

\* the chunks stored for a document id
ChunksOf(rows, docId) == SelectSeq(rows, LAMBDA row : row.docId = docId)

\* ingestDocuments hands a document of D and its chunk records to upsertDoc;
\* at most `most` chunks are stored
Upsert(D, most) ==
  /\ kbCall = "none"
  /\ \E d \in D :
       \E new \in {RowsOf(d)} :
         \E run \in {upsertDoc(docTable, store, d, new)} :
           /\ Len(run.chunks) <= most
           /\ store' = run.chunks
           /\ docTable' = run.docs
           /\ upsert' = [docId |-> d.docId, ok |-> run.ok,
                         superseding |-> ChunksOf(store, d.docId) \notin {<<>>, new}]
           /\ ingested' = IF run.ok THEN [ingested EXCEPT ![d.docId] = new]
                          ELSE ingested
  /\ UNCHANGED <<kbCall, request, results, outcome, lastIndex, doc, call, arg,
                 res, prevArg, prevRes, entryIndex, missing, letterVars,
                 chunkVars, cases, saved, tool>>

UpsertDoc == Upsert(KbDocs, MaxRows)

\* a call of KBStore.search
Search ==
  /\ kbCall = "none"
  /\ kbCall' = "search"
  /\ request' \in Requests
  /\ results' = search(store, request'.query, request'.filters, request'.topK)
  /\ outcome' = "ok"
  /\ UNCHANGED <<store, lastIndex, doc, call, arg, res, prevArg, prevRes,
                 entryIndex, missing, letterVars, chunkVars,
                 dbVars>>

\* options?.topK ?? 8
TopKOf(options) == IF options = <<>> THEN DefaultTopK ELSE options[1]

\* faulty variant: the tool does not test its query
ToolAnswerUntested(st, req) ==
  [outcome |-> "ok",
   results |-> searchKB(st, req.query, req.filters, TopKOf(req.options))]

\* the kb.search tool (index.ts 277-297): a query that is missing or blank
\* is refused with McpError InvalidParams
ToolAnswer(st, req) ==
  IF Trim(req.query) = <<>>
  THEN [outcome |-> "error", results |-> <<>>]
  ELSE [outcome |-> "ok",
        results |-> searchKB(st, req.query, req.filters, TopKOf(req.options))]

KbSearch ==
  /\ kbCall = "none"
  /\ kbCall' = "kb.search"
  /\ request' \in ToolRequests
  /\ \E answer \in {ToolAnswer(store, request')} :
       /\ outcome' = answer.outcome
       /\ results' = answer.results
  /\ UNCHANGED <<store, lastIndex, doc, call, arg, res, prevArg, prevRes,
                 entryIndex, missing, letterVars, chunkVars,
                 dbVars>>

\* a call of retrieveForCase
Retrieve ==
  /\ kbCall = "none"
  /\ kbCall' = "retrieve"
  /\ request' \in RetrieveRequests
  /\ results' = retrieveForCase(store, request'.denialCase,
                                request'.topKPerQuery, request'.maxTotal)
  /\ outcome' = "ok"
  /\ UNCHANGED <<store, lastIndex, doc, call, arg, res, prevArg, prevRes,
                 entryIndex, missing, letterVars, chunkVars,
                 dbVars>>

KbNext == UpsertDoc \/ Search \/ KbSearch \/ Retrieve

KbSpec == KbInit /\ [][KbNext]_vars

\* ------------------------------------------------- the case registry and
\* the tools appeal.generate and appeal.generateFromCaseId (index.ts 322-390,
\* appeal-writer-mcp/src/kb/store.ts 247-267).  The table cases is a set of
\* rows [caseId, dataJson]; dataJson is the case itself: the arguments of a
\* tool call are parsed JSON, which JSON.stringify and JSON.parse hand back.
\* An optional argument is <<>> when absent and <<v>> when given; null is <<>>.

\* faulty variant: INSERT OR IGNORE, the row stored first stays
saveCaseOnce(table, denialCase) ==
  IF \E row \in table : row.caseId = denialCase.caseId THEN table
  ELSE table \cup {[caseId |-> denialCase.caseId, dataJson |-> denialCase]}

\* INSERT INTO cases ... ON CONFLICT(caseId) DO UPDATE SET dataJson = ...
saveCase(table, denialCase) ==
  {row \in table : row.caseId # denialCase.caseId}
    \cup {[caseId |-> denialCase.caseId, dataJson |-> denialCase]}

\* SELECT dataJson FROM cases WHERE caseId = ?
getCase(table, caseId) ==
  IF \E row \in table : row.caseId = caseId
  THEN <<(CHOOSE row \in table : row.caseId = caseId).dataJson>>
  ELSE <<>>

CaseIdRequired == "case.caseId is required"
IdRequired == "caseId is required"
CaseNotFound == "Case not found"

\* if (storeCaseForLookup)
Asked(flag) == flag # <<>> /\ flag[1]

\* the handler of appeal.generate up to its call of generateAppealLetter:
\* the table it leaves, its outcome (a letter, or the message of the McpError
\* InvalidParams it throws) and the case the letter is generated from
generate(table, denialCase, storeCaseForLookup) ==
  IF denialCase.caseId = ""
  THEN [cases |-> table, outcome |-> CaseIdRequired, used |-> <<>>]
  ELSE [cases |-> IF Asked(storeCaseForLookup) THEN saveCase(table, denialCase)
                  ELSE table,
        outcome |-> "letter",
        used |-> <<denialCase>>]

\* the handler of appeal.generateFromCaseId, likewise
generateFromCaseId(table, caseId) ==
  IF caseId = ""
  THEN [cases |-> table, outcome |-> IdRequired, used |-> <<>>]
  ELSE IF getCase(table, caseId) = <<>>
  THEN [cases |-> table, outcome |-> CaseNotFound, used |-> <<>>]
  ELSE [cases |-> table, outcome |-> "letter", used |-> getCase(table, caseId)]

MaxChunks == 11
MaxStored == 13
MaxSaves == 2

\* the documents ingested here: document d comes in two versions, the first
\* of MaxChunks chunks
StoreDocs ==
  { [docId |-> "d", payerName |-> null, docType |-> "policy", tags |-> <<>>,
     texts |-> [i \in 1..MaxChunks |-> <<"PT">>], embedded |-> FALSE],
    [docId |-> "d", payerName |-> "Aetna", docType |-> "clinical",
     tags |-> <<"pt">>, texts |-> << <<"limit">> >>, embedded |-> FALSE],
    [docId |-> "d1", payerName |-> "Cigna", docType |-> "policy", tags |-> <<>>,
     texts |-> << <<"appeal">> >>, embedded |-> FALSE],
    [docId |-> "d2", payerName |-> "Aetna", docType |-> "policy", tags |-> <<>>,
     texts |-> << <<"denial">> >>, embedded |-> TRUE] }

ToolCases == [caseId : CaseIds \cup {""}, payerName : {"Aetna", "Cigna"}]
Flags == {<<>>, <<TRUE>>, <<FALSE>>}

StoreDrafts ==
  { [claude |-> <<>>, openai |-> <<>>, template |-> TemplateDraft(OtherSection),
     inline |-> FALSE] }

StoreInit ==
  /\ doc = <<>>
  /\ Fresh
  /\ drafts \in StoreDrafts
  /\ letter = NoLetter
  /\ ChunkIdle
  /\ KbIdle
  /\ DbIdle

Ingest == Upsert(StoreDocs, MaxStored)

\* what a handler leaves when it threw before generateAppealLetter
NothingGenerated ==
  UNCHANGED <<lastIndex, call, arg, res, prevArg, prevRes, entryIndex, missing,
              letter>>

\* the cases appeal.generate was asked to store under a case id
Saved(caseId) == IF caseId \in CaseIds THEN saved[caseId] ELSE <<>>

\* at most MaxSaves cases are stored in a behaviour
AppealGenerate ==
  /\ \E denialCase \in ToolCases, flag \in Flags :
       \E answer \in {generate(cases, denialCase, flag)} :
         /\ flag = <<TRUE>> => Len(saved["c1"]) + Len(saved["c2"]) < MaxSaves
         /\ cases' = answer.cases
         /\ tool' = [name |-> "appeal.generate", caseId |-> denialCase.caseId,
                     flag |-> flag, outcome |-> answer.outcome,
                     used |-> answer.used]
         /\ saved' = IF denialCase.caseId # "" /\ flag = <<TRUE>>
                     THEN [saved EXCEPT ![denialCase.caseId] = Append(@, denialCase)]
                     ELSE saved
         /\ IF answer.used # <<>> THEN Generating ELSE NothingGenerated
  /\ UNCHANGED <<doc, drafts, chunkVars, kbVars, docTable, upsert, ingested>>

AppealGenerateFromCaseId ==
  /\ \E caseId \in CaseIds \cup {""} :
       \E answer \in {generateFromCaseId(cases, caseId)} :
         /\ cases' = answer.cases
         /\ tool' = [name |-> "appeal.generateFromCaseId", caseId |-> caseId,
                     flag |-> <<>>, outcome |-> answer.outcome,
                     used |-> answer.used]
         /\ IF answer.used # <<>> THEN Generating ELSE NothingGenerated
  /\ UNCHANGED <<doc, drafts, chunkVars, kbVars, docTable, upsert, ingested,
                 saved>>

StoreNext == Ingest \/ AppealGenerate \/ AppealGenerateFromCaseId

StoreSpec == StoreInit /\ [][StoreNext]_vars

\* ------------------------------------------------------------- the claims
Verified == call \in {"verify", "reverify"}

\* the text contains a "[NEEDS EVIDENCE: ...]" marker
ContainsMarker(s) == \E p \in 1..Len(s) : MarkerAt(s, p) # 0

\* the content a turn of the sentence loop started from
Before(i, k) == IF k = 1 THEN arg[i].content ELSE res.steps[i][k - 1].content

SameResult(a, b) ==
  /\ a.sections = b.sections
  /\ a.unresolvedClaims = b.unresolvedClaims
  /\ a.warnings = b.warnings

\* some citation's snippet, commas stripped, contains an extracted value
Covered(sentence, citations) ==
  \E c \in 1..Len(citations), n \in 1..Len(Needles(sentence)) :
    Includes(StripCommas(citations[c].snippet), Needles(sentence)[n])

\* C1: verifying the sections a verification returned changes no content,
\* records no unresolved claim and gives no warning the first run did not give.
C1_Idempotent ==
  call = "reverify" =>
    /\ \A i \in 1..Len(arg) : res.sections[i].content = arg[i].content
    /\ res.unresolvedClaims = <<>>
    /\ \A w \in 1..Len(res.warnings) :
         \E v \in 1..Len(prevRes.warnings) : prevRes.warnings[v] = res.warnings[w]

\* a sentence of the text starts with a marker
StartsWithMarker(s) == MarkerAt(s, 1) # 0

\* C2: in the verified content every sentence that holds a numeric claim no
\* citation covers contains a marker or is directly followed by one.
C2_EveryUncoveredSentenceMarked ==
  Verified =>
    \A i \in 1..Len(res.sections) :
      LET out == splitSentences(res.sections[i].content)
      IN \A k \in 1..Len(out) :
           (hasNumericClaim(out[k]) /\ ~citationCoversValue(out[k], arg[i].citations))
             => \/ ContainsMarker(out[k])
                \/ (k < Len(out) /\ StartsWithMarker(out[k + 1]))

\* C3: a sentence that contains a marker is never patched.
C3_MarkedSentenceNeverPatched ==
  Verified =>
    \A i \in 1..Len(res.steps) : \A k \in 1..Len(res.steps[i]) :
      ContainsMarker(res.steps[i][k].sentence) => res.steps[i][k].outcome # "patched"

\* C4: two verifySections calls with equal input return equal results.
C4_EqualInputEqualResult ==
  (Verified /\ prevArg # <<>> /\ arg = prevArg) => SameResult(res, prevRes)

RECURSIVE PatchedIn(_)
PatchedIn(steps) ==
  IF steps = <<>> THEN 0
  ELSE (IF Head(steps).outcome = "patched" THEN 1 ELSE 0) + PatchedIn(Tail(steps))

RECURSIVE PatchedInAll(_)
PatchedInAll(stepsOfSections) ==
  IF stepsOfSections = <<>> THEN 0
  ELSE PatchedIn(Head(stepsOfSections)) + PatchedInAll(Tail(stepsOfSections))

\* C5: in a section without citations every sentence with a numeric claim and
\* no marker is patched: its placeholder enters the content, and the call
\* records one unresolved claim for each patched sentence.
C5_UncitedNumericPatched ==
  Verified =>
    /\ \A i \in 1..Len(arg) : \A k \in 1..Len(res.steps[i]) :
         LET st == res.steps[i][k]
         IN (Len(arg[i].citations) = 0 /\ hasNumericClaim(st.sentence)
             /\ ~ContainsMarker(st.sentence))
              => /\ st.outcome = "patched"
                 /\ st.content # Before(i, k)
                 /\ Includes(st.content, <<" ">> \o Placeholder(st.sentence))
                 /\ \E u \in 1..Len(res.unresolvedClaims) :
                      res.unresolvedClaims[u] = UnresolvedClaim(arg[i].title, st.sentence)
    /\ Len(res.unresolvedClaims) = PatchedInAll(res.steps)

C5_Witness ==
  /\ Verified
  /\ \E i \in 1..Len(arg) : \E k \in 1..Len(res.steps[i]) :
       /\ Len(arg[i].citations) = 0
       /\ hasNumericClaim(res.steps[i][k].sentence)
       /\ ~ContainsMarker(res.steps[i][k].sentence)
       /\ res.steps[i][k].outcome = "patched"
       /\ k > 1

\* C6 as stated: a sentence with a numeric claim and an extracted value is
\* left alone exactly when a citation covers one of its values.
C6_UnpatchedIffCovered ==
  Verified =>
    \A i \in 1..Len(arg) : \A k \in 1..Len(res.steps[i]) :
      LET st == res.steps[i][k]
      IN (hasNumericClaim(st.sentence) /\ Needles(st.sentence) # <<>>)
           => ((st.outcome # "patched" /\ st.content = Before(i, k))
                 <=> Covered(st.sentence, arg[i].citations))

\* C6 amended: a sentence with a numeric claim, an extracted value and no
\* marker is left alone exactly when a citation covers one of its values.
C6_UnmarkedUnpatchedIffCovered ==
  Verified =>
    \A i \in 1..Len(arg) : \A k \in 1..Len(res.steps[i]) :
      LET st == res.steps[i][k]
      IN (hasNumericClaim(st.sentence) /\ Needles(st.sentence) # <<>>
          /\ ~ContainsMarker(st.sentence))
           => ((st.outcome # "patched" /\ st.content = Before(i, k))
                 <=> Covered(st.sentence, arg[i].citations))

C6_Witness ==
  /\ Verified
  /\ \E i \in 1..Len(arg) : \E k \in 1..Len(res.steps[i]) :
       /\ hasNumericClaim(res.steps[i][k].sentence)
       /\ Needles(res.steps[i][k].sentence) # <<>>
       /\ ~ContainsMarker(res.steps[i][k].sentence)
       /\ Len(arg[i].citations) = 2
       /\ ~Covered(res.steps[i][k].sentence, <<arg[i].citations[1]>>)
       /\ Covered(res.steps[i][k].sentence, arg[i].citations)
       /\ res.steps[i][k].outcome = "covered"

\* C7 as stated: a sentence with a numeric claim and no extracted value is
\* never patched, with or without citations.
C7_NoValueNeverPatched ==
  Verified =>
    \A i \in 1..Len(arg) : \A k \in 1..Len(res.steps[i]) :
      LET st == res.steps[i][k]
      IN (hasNumericClaim(st.sentence) /\ Needles(st.sentence) = <<>>)
           => (st.outcome # "patched" /\ st.content = Before(i, k))

\* C7 amended: a sentence with a numeric claim and no extracted value is not
\* patched when its section has a citation; in a section without citations
\* it is patched unless it contains a marker.
C7_NoValuePassesWhenCited ==
  Verified =>
    \A i \in 1..Len(arg) : \A k \in 1..Len(res.steps[i]) :
      LET st == res.steps[i][k]
      IN (hasNumericClaim(st.sentence) /\ Needles(st.sentence) = <<>>)
           => /\ Len(arg[i].citations) > 0
                   => (st.outcome # "patched" /\ st.content = Before(i, k))
              /\ (Len(arg[i].citations) = 0 /\ ~ContainsMarker(st.sentence))
                   => st.outcome = "patched"

C7_Witness ==
  /\ Verified
  /\ \E i \in 1..Len(arg) : \E k \in 1..Len(res.steps[i]) :
       /\ hasNumericClaim(res.steps[i][k].sentence)
       /\ Needles(res.steps[i][k].sentence) = <<>>
       /\ Len(arg[i].citations) > 0
       /\ res.steps[i][k].outcome = "covered"

\* the section-level warning was added to output section i
Warned(i) ==
  res.sections[i].warnings = Append(arg[i].warnings, SectionWarning(arg[i].title))

RECURSIVE WarnedCount(_)
WarnedCount(n) == IF n = 0 THEN 0 ELSE (IF Warned(n) THEN 1 ELSE 0) + WarnedCount(n - 1)

\* C9: a section is warned about exactly when it has no citation, its input
\* content contains no marker and it is neither the header nor the closing;
\* the result carries one warning for each such section.
C9_WarningIffUngrounded ==
  Verified =>
    /\ \A i \in 1..Len(arg) :
         Warned(i) <=> (/\ Len(arg[i].citations) = 0
                        /\ ~ContainsMarker(arg[i].content)
                        /\ arg[i].id \notin {"header", "closing"})
    /\ \A i \in 1..Len(arg) : ~Warned(i) => res.sections[i].warnings = arg[i].warnings
    /\ Len(res.warnings) = WarnedCount(Len(arg))

RECURSIVE AllMarkers(_)
AllMarkers(sections) ==
  IF sections = <<>> THEN <<>>
  ELSE MatchAll("marker", Head(sections).content) \o AllMarkers(Tail(sections))

\* the text of a marker: what lies between "[NEEDS EVIDENCE:" and "]", trimmed
MarkerText(m) == Trim(SubSeq(m, 2, Len(m) - 1))

\* C10: collectMissingEvidence returns the text of every marker of the
\* sections, each text once, in the order of first appearance.
C10_CollectsEachMarkerOnceInOrder ==
  call = "collect" =>
    LET ms == AllMarkers(arg)
        First(x) == SetMin({k \in 1..Len(ms) : MarkerText(ms[k]) = x})
    IN /\ \A k \in 1..Len(ms) : \E j \in 1..Len(missing) : missing[j] = MarkerText(ms[k])
       /\ \A j \in 1..Len(missing) : \E k \in 1..Len(ms) : MarkerText(ms[k]) = missing[j]
       /\ \A i, j \in 1..Len(missing) :
            i < j => (missing[i] # missing[j] /\ First(missing[i]) < First(missing[j]))

C10_Witness ==
  /\ call = "collect"
  /\ Len(arg) = 2
  /\ Len(missing) >= 2
  /\ Len(AllMarkers(arg)) > Len(missing)
  /\ MatchAll("marker", arg[1].content) # <<>>
  /\ MatchAll("marker", arg[2].content) # <<>>

\* C11: every item collectMissingEvidence returns is a string that is not
\* empty after trimming.
C11_ItemsNonEmpty ==
  call = "collect" => \A j \in 1..Len(missing) : Trim(missing[j]) # <<>>

\* the sections generateAppealLetter must have drafted from
Drafted ==
  CASE Len(drafts.claude) >= MinSections -> drafts.claude
    [] Len(drafts.claude) < MinSections /\ Len(drafts.openai) >= MinSections
         -> drafts.openai
    [] OTHER -> drafts.template

EndsWith(t, e) == Len(t) >= Len(e) /\ SubSeq(t, Len(t) - Len(e) + 1, Len(t)) = e

C13_ChunksCoverText ==
  (phase = "done" /\ Trim(chunkIn.text) # <<>> /\ chunkIn.chunkSize >= 1) =>
    /\ chunks # <<>>
    /\ chunks[1].start = 0
    /\ 10 * chunks[Len(chunks)].end >= 8 * Len(chunkIn.text)

\* C14: every iteration moves the cursor forward, to
\* max(splitAt - overlap, cursor + 1), the loop is left once the cursor has
\* reached the text length, and every call comes to its end.
C14_CursorAdvancesAndLoopEnds ==
  /\ [][phase = "loop" =>
          /\ pos' > pos
          /\ pos' = Max(splitAt' - chunkIn.overlap, pos + 1)
          /\ (phase' = "done") = (pos' >= Len(chunkIn.text))]_vars
  /\ [](phase = "loop" => <>(phase = "done"))

\* a call that ended although overlap >= chunkSize, after several iterations
C14_Witness ==
  /\ phase = "done"
  /\ chunkIn.overlap >= chunkIn.chunkSize
  /\ chunkIn.overlap > 0
  /\ Len(chunks) >= 3

Given(v) == v \notin {undefined, ""}

\* the rows claim C16 calls the candidates of a search
Candidate(filters, row) ==
  /\ ~Given(filters.docType) \/ row.docType = filters.docType
  /\ \/ ~Given(filters.payerName)
     \/ row.payerName = filters.payerName
     \/ row.payerName = null

CandidateIds(filters) ==
  {store[i].chunkId : i \in {j \in DOMAIN store : Candidate(filters, store[j])}}

ReturnedIds(found) == {found[i].chunkId : i \in DOMAIN found}

\* C16: every chunk that KBStore.search returns belongs to a document that
\* passes the docType filter (none given, or equal) and the payerName filter
\* (none given, or equal, or the document has no payerName); when topK is at
\* least the number of such chunks, all of them are returned.
C16_ResultsAreTheCandidates ==
  kbCall = "search" =>
    /\ ReturnedIds(results) \subseteq CandidateIds(request.filters)
    /\ request.topK >= Cardinality(CandidateIds(request.filters)) =>
         ReturnedIds(results) = CandidateIds(request.filters)

\* a search for a payer over documents of that payer, of another payer and
\* of no payer
C16_Witness ==
  /\ kbCall = "search"
  /\ request.filters.payerName = "Aetna"
  /\ \E i \in DOMAIN store : store[i].payerName = "Cigna"
  /\ \E i \in DOMAIN results : results[i].meta.payerName = undefined
  /\ \E i \in DOMAIN results : results[i].meta.payerName = "Aetna"
  /\ Len(results) = request.topK

\* the number of requested tags that the document of a row carries
TagsCarried(tags, row) ==
  Cardinality({i \in DOMAIN tags : \E j \in DOMAIN row.tags : row.tags[j] = tags[i]})

StoredRow(cid) == store[CHOOSE i \in DOMAIN store : store[i].chunkId = cid]

\* the search of the last request without its tags, and with no limit
Untagged(topK) ==
  search(store, request.query, [request.filters EXCEPT !.tags = <<>>], topK)

ScoreIn(found, cid) ==
  found[CHOOSE i \in DOMAIN found : found[i].chunkId = cid].score

\* every score of found is the score in plain times 1 + 0.1 x tags carried
BoostedFrom(found, plain, tags) ==
  \A i \in DOMAIN found :
    10 * found[i].score =
      ScoreIn(plain, found[i].chunkId)
        * (10 + TagsCarried(tags, StoredRow(found[i].chunkId)))

PlaceInStore(cid) == CHOOSE i \in DOMAIN store : store[i].chunkId = cid

\* C18: KBStore.search returns min(topK, number of candidates) results, in
\* non-increasing order of score, results of equal score in the order of
\* the candidates.
C18_TopKSortedStable ==
  kbCall = "search" =>
    /\ Len(results) = Min(request.topK, Cardinality(CandidateIds(request.filters)))
    /\ \A i, j \in DOMAIN results :
         i < j =>
           /\ results[i].score >= results[j].score
           /\ results[i].score = results[j].score =>
                PlaceInStore(results[i].chunkId) < PlaceInStore(results[j].chunkId)

\* a search cut to topK that returns two chunks of equal score before a
\* chunk of a lower score that is stored before them
C18_Witness ==
  /\ kbCall = "search"
  /\ Len(results) = 3
  /\ Cardinality(CandidateIds(request.filters)) > 3
  /\ results[1].score = results[2].score
  /\ results[2].score > results[3].score
  /\ results[3].score > 0
  /\ PlaceInStore(results[3].chunkId) < PlaceInStore(results[1].chunkId)

Blank(query) == Trim(query) = <<>>

\* C19 (as stated): a search with an empty or white-space query returns an
\* empty list and does not throw, whatever the store contains.
C19_BlankQueryReturnsNothing ==
  (kbCall \in {"search", "kb.search"} /\ Blank(request.query)) =>
    /\ outcome = "ok"
    /\ results = <<>>

\* C19 (amended): for an empty or white-space query, KBStore.search does not
\* throw and returns the first min(topK, number of candidates) candidates in
\* their stored order, each with score 0; the kb.search tool refuses the
\* query with an error and returns nothing.
C19_BlankQueryScoresZeroOrIsRefused ==
  /\ (kbCall = "search" /\ Blank(request.query)) =>
       /\ outcome = "ok"
       /\ Len(results) = Min(request.topK, Cardinality(CandidateIds(request.filters)))
       /\ \A i \in DOMAIN results : results[i].score = 0
       /\ ReturnedIds(results) \subseteq CandidateIds(request.filters)
       /\ \A i, j \in DOMAIN results :
            i < j => PlaceInStore(results[i].chunkId) < PlaceInStore(results[j].chunkId)
  /\ (kbCall = "kb.search" /\ Blank(request.query)) =>
       /\ outcome = "error"
       /\ results = <<>>

\* a white-space query that KBStore.search answers with two chunks
C19_Witness ==
  /\ kbCall = "search"
  /\ request.query = <<" ">>
  /\ outcome = "ok"
  /\ Len(results) >= 2
  /\ results[1].score = 0

\* the derived queries that are not blank, and the list each of them finds
AskedQueries(denialCase) ==
  SelectSeq(QueriesFor(denialCase), LAMBDA e : ~Blank(e.q))

ListsFound(asked, topKPerQuery) ==
  [i \in DOMAIN asked |->
     search(store, asked[i].q, asked[i].filters, topKPerQuery)]

ScoresOf(cid, lists) ==
  UNION {{lists[i][j].score :
            j \in {k \in DOMAIN lists[i] : lists[i][k].chunkId = cid}} :
         i \in DOMAIN lists}

IdsOf(lists) == UNION {ReturnedIds(lists[i]) : i \in DOMAIN lists}

MergedFrom(found, lists, maxTotal) ==
  /\ \A i, j \in DOMAIN found : i < j =>
       /\ found[i].chunkId # found[j].chunkId
       /\ found[i].score >= found[j].score
  /\ \A i \in DOMAIN found :
       /\ ScoresOf(found[i].chunkId, lists) # {}
       /\ found[i].score = SetMax(ScoresOf(found[i].chunkId, lists))
  /\ Len(found) = Min(maxTotal, Cardinality(IdsOf(lists)))

\* C20: retrieveForCase returns no chunk id twice, gives each chunk the
\* highest score it has in the result lists of the derived queries, orders
\* the chunks by non-increasing score and returns at most maxTotal of them;
\* a derived query that is empty or white space is not searched for, and
\* nothing is thrown.
C20_MergedByBestScore ==
  kbCall = "retrieve" =>
    /\ outcome = "ok"
    /\ MergedFrom(results,
                  ListsFound(AskedQueries(request.denialCase), request.topKPerQuery),
                  request.maxTotal)

TwiceFound(found, lists) ==
  \E i \in DOMAIN found : Cardinality(ScoresOf(found[i].chunkId, lists)) >= 2

\* a retrieval with a white-space derived query, that finds a chunk with
\* two scores and is cut to maxTotal
C20_Witness ==
  /\ kbCall = "retrieve"
  /\ \E i \in DOMAIN QueriesFor(request.denialCase) :
       /\ QueriesFor(request.denialCase)[i].q # <<>>
       /\ Blank(QueriesFor(request.denialCase)[i].q)
  /\ Len(results) = request.maxTotal
  /\ Len(results) >= 2
  /\ TwiceFound(results,
                ListsFound(AskedQueries(request.denialCase), request.topKPerQuery))

\* the candidate end of the iteration under way, the start of its search
\* window, and the window
CandidateEnd == Min(pos + chunkIn.chunkSize, Len(chunkIn.text))
WindowBase == Max(CandidateEnd - Tolerance, pos)
SearchWindow == Substring(chunkIn.text, WindowBase, CandidateEnd)

\* the places of a window right after a paragraph break, right after the
\* punctuation of a sentence boundary, right after a space
AfterParagraph(w) == {i \in 2..Len(w) : w[i - 1] = NL /\ w[i] = NL}
AfterSentence(w) ==
  {i \in 1..Len(w) :
     /\ w[i] \in EnderToks
     /\ \E j \in (i + 2)..Len(w) :
          /\ w[j] \in UpperToks
          /\ \A k \in (i + 1)..(j - 1) : w[k] \in SpaceToks}
AfterSpace(w) == {i \in 1..Len(w) : w[i] = " "}

\* the breaks the priority allows: the last paragraph break, else a sentence
\* boundary, else the last space
Preferred(w) ==
  IF AfterParagraph(w) # {} THEN {SetMax(AfterParagraph(w))}
  ELSE IF AfterSentence(w) # {} THEN AfterSentence(w)
  ELSE IF AfterSpace(w) # {} THEN {SetMax(AfterSpace(w))}
  ELSE {}

\* an iteration whose candidate end lies before the end of the text
BeforeTextEnd == phase = "loop" /\ CandidateEnd < Len(chunkIn.text)

\* C24: when the candidate end lies before the end of the text, the text is
\* split at the break the priority prefers (paragraph, else sentence, else
\* last space) whenever that break leaves more than the minimum chunk, and
\* otherwise at the candidate end; never at a break of lower priority.
C24_BreakChosenByPriority ==
  [][BeforeTextEnd =>
       /\ splitAt' = CandidateEnd \/ splitAt' - WindowBase \in Preferred(SearchWindow)
       /\ \A b \in Preferred(SearchWindow) :
            (Cardinality(Preferred(SearchWindow)) = 1
               /\ WindowBase + b > pos + (4 * chunkIn.chunkSize) \div 10)
              => splitAt' = WindowBase + b]_vars

\* a chunk cut right after a paragraph break although a space lies later in
\* the window, and one cut at a sentence boundary before the window's space
C24_Witness ==
  /\ phase = "done"
  /\ \E i \in DOMAIN chunks :
       LET w == Substring(chunkIn.text, chunks[i].start,
                          Min(chunks[i].start + chunkIn.chunkSize, Len(chunkIn.text)))
           cut == chunks[i].end - chunks[i].start
       IN /\ chunks[i].start + chunkIn.chunkSize < Len(chunkIn.text)
          /\ \/ cut \in AfterParagraph(w) /\ \E j \in AfterSpace(w) : j > cut
             \/ cut \in AfterSentence(w) /\ AfterParagraph(w) = {}
                  /\ \E j \in AfterSpace(w) : j > cut

\* C25 (as stated): the natural break is given up for the candidate end
\* exactly when it would make the chunk shorter than 40% of chunkSize, and
\* every chunk that ends before the end of the text spans at least 40% of
\* chunkSize.
C25_BreakDiscardedIffTooShort ==
  [][(BeforeTextEnd /\ BreakIn(SearchWindow) # -1) =>
       /\ splitAt' = IF 10 * (WindowBase + BreakIn(SearchWindow) - pos)
                          < 4 * chunkIn.chunkSize
                     THEN CandidateEnd
                     ELSE WindowBase + BreakIn(SearchWindow)
       /\ \A i \in DOMAIN chunks' :
            chunks'[i].end < Len(chunkIn.text) =>
              10 * (chunks'[i].end - chunks'[i].start) >= 4 * chunkIn.chunkSize]_vars

\* C25 (amended): the natural break is given up for the candidate end
\* exactly when the chunk it would make is no longer than 40% of chunkSize
\* rounded down; every chunk that ends before the end of the text spans at
\* least 40% of chunkSize.
C25_BreakDiscardedIffNotAboveMinimum ==
  [][(BeforeTextEnd /\ BreakIn(SearchWindow) # -1) =>
       /\ splitAt' = IF WindowBase + BreakIn(SearchWindow) - pos
                          <= (4 * chunkIn.chunkSize) \div 10
                     THEN CandidateEnd
                     ELSE WindowBase + BreakIn(SearchWindow)
       /\ \A i \in DOMAIN chunks' :
            chunks'[i].end < Len(chunkIn.text) =>
              10 * (chunks'[i].end - chunks'[i].start) >= 4 * chunkIn.chunkSize]_vars

\* a call with chunkSize 5 that met a break 2 characters after the cursor
\* and cut at the candidate end, and one that used a break
C25_Witness ==
  /\ phase = "done"
  /\ chunkIn.chunkSize = 5
  /\ Len(chunks) >= 2
  /\ Len(chunkIn.text) > 5
  /\ BreakIn(Substring(chunkIn.text, 0, 5)) = 2
  /\ chunks[1].start = 0
  /\ chunks[1].end = 5

\* C26: every chunk has 0 <= start < end <= text length and
\* end - start <= chunkSize; its text is the trimmed slice of the text from
\* start to end and is not empty; the indexes are 0, 1, 2, ... and the
\* starts increase strictly.
C26_ChunksWellFormed ==
  chunkIn.chunkSize >= 1 =>
    \A i \in DOMAIN chunks :
      /\ 0 <= chunks[i].start
      /\ chunks[i].start < chunks[i].end
      /\ chunks[i].end <= Len(chunkIn.text)
      /\ chunks[i].end - chunks[i].start <= chunkIn.chunkSize
      /\ chunks[i].text = Trim(Substring(chunkIn.text, chunks[i].start, chunks[i].end))
      /\ chunks[i].text # <<>>
      /\ chunks[i].index = i - 1
      /\ i > 1 => chunks[i - 1].start < chunks[i].start

\* a call that dropped a white-space piece between two chunks, the second
\* of which was trimmed
C26_Witness ==
  /\ phase = "done"
  /\ Len(chunks) >= 2
  /\ chunks[2].start > chunks[1].end
  /\ Len(chunks[2].text) < chunks[2].end - chunks[2].start

\* C27: with chunkSize >= 1 every character of the text that is not white
\* space lies inside a returned chunk.
C27_NoContentLost ==
  (phase = "done" /\ chunkIn.chunkSize >= 1) =>
    \A k \in 0..(Len(chunkIn.text) - 1) :
      chunkIn.text[k + 1] \notin SpaceToks =>
        \E i \in DOMAIN chunks : chunks[i].start <= k /\ k < chunks[i].end

\* a call without overlap that cut a text of several words into chunks
C27_Witness ==
  /\ phase = "done"
  /\ chunkIn.overlap = 0
  /\ chunkIn.chunkSize >= 2
  /\ Len(chunks) >= 3
  /\ \E k \in 1..Len(chunkIn.text) : chunkIn.text[k] \in SpaceToks

\* b is a with markers " [NEEDS EVIDENCE: source for ...]" or
\* " [NEEDS EVIDENCE: citation for ...]" inserted
RECURSIVE WithMarkersInserted(_, _)
WithMarkersInserted(a, b) ==
  \/ a = b
  \/ /\ a # <<>>
     /\ b # <<>>
     /\ Head(a) = Head(b)
     /\ WithMarkersInserted(Tail(a), Tail(b))
  \/ /\ Len(b) >= 5
     /\ b[1] = " "
     /\ b[2] = NE
     /\ b[3] = " "
     /\ b[4] \in {SRC, GEN}
     /\ \E k \in 5..Len(b) :
          /\ b[k] = "]"
          /\ \A j \in 5..(k - 1) : b[j] # "]"
          /\ WithMarkersInserted(a, SubSeq(b, k + 1, Len(b)))

IsPrefix(a, b) == Len(a) <= Len(b) /\ SubSeq(b, 1, Len(a)) = a

\* C29: verifySections returns one section per input section, in order,
\* with id, title and citations unchanged and the warnings it came with
\* first; the content it returns is the content it was given with text
\* inserted, nothing of the original removed or reordered.
C29_SectionsKeptAndContentOnlyGrows ==
  call \in {"verify", "reverify"} =>
    /\ Len(res.sections) = Len(arg)
    /\ \A i \in DOMAIN arg :
         /\ res.sections[i].id = arg[i].id
         /\ res.sections[i].title = arg[i].title
         /\ res.sections[i].citations = arg[i].citations
         /\ IsPrefix(arg[i].warnings, res.sections[i].warnings)
         /\ WithMarkersInserted(arg[i].content, res.sections[i].content)

RequiredIds ==
  {"header", "opening", "denial_codes", "grounds_for_appeal", "attachments",
   "closing"}

\* C23: every letter generateAppealLetter returns has at least 6 sections,
\* among them sections with the ids header, opening, denial_codes,
\* grounds_for_appeal, attachments and closing, whichever drafter wrote them.
C23_LetterHasRequiredSections ==
  call = "generate" =>
    /\ Len(letter.sections) >= 6
    /\ \A id \in RequiredIds :
         \E i \in DOMAIN letter.sections : letter.sections[i].id = id

\* C21: after any sequence of upsertDoc calls the chunks stored for a
\* document id are exactly those handed to the last upsertDoc call of that id
\* that committed; nothing of an earlier ingestion of the id is left.
C21_StoredChunksAreTheLastIngested ==
  \A id \in DocIds : ChunksOf(store, id) = ingested[id]

\* document d is ingested anew with fewer chunks than were stored
C21_Witness ==
  /\ upsert = [docId |-> "d", ok |-> TRUE, superseding |-> TRUE]
  /\ Len(ingested["d"]) = 1
  /\ Len(store) > 1

\* the row of the table docs of a document id, if there is one
DocRowsOf(table, docId) == {row \in table : row.docId = docId}

\* C30: an upsertDoc call of which a chunk insert fails leaves the document
\* row and the stored chunks of its document as they were; and every call
\* leaves the rows and the chunks of all other document ids and the case
\* registry unchanged.
C30_UpsertIsAtomicAndLocal ==
  [][ /\ ~upsert'.ok => store' = store /\ docTable' = docTable
      /\ \A id \in DocIds \ {upsert'.docId} :
           /\ ChunksOf(store', id) = ChunksOf(store, id)
           /\ DocRowsOf(docTable', id) = DocRowsOf(docTable, id)
      /\ cases' # cases =>
           store' = store /\ docTable' = docTable /\ upsert' = upsert ]_vars

\* an upsertDoc call of document d failed while other chunks of d, chunks of
\* another document and a case were stored
C30_Witness ==
  /\ upsert = [docId |-> "d", ok |-> FALSE, superseding |-> TRUE]
  /\ ChunksOf(store, "d") # <<>>
  /\ ChunksOf(store, "d1") # <<>>
  /\ cases # {}

\* C28: the chunk ids of two different pairs (document id, chunk index)
\* differ, so that ingesting documents of distinct ids never fails on the
\* primary key of the table chunks: no upsertDoc call that ingestDocuments
\* makes is refused.
C28_IngestionNeverFailsOnChunkId ==
  /\ upsert.ok
  /\ \A a, b \in DocIds : \A i \in DOMAIN ingested[a], j \in DOMAIN ingested[b] :
       ingested[a][i].chunkId = ingested[b][j].chunkId => a = b /\ i = j

FromCaseId == tool.name = "appeal.generateFromCaseId"
Last(q) == q[Len(q)]

\* every step that changes the case registry is an appeal.generate call with
\* storeCaseForLookup = true, and a call that threw generated nothing
RegistryKept ==
  /\ cases' # cases => tool'.name = "appeal.generate" /\ tool'.flag = <<TRUE>>
  /\ tool'.used = <<>> => letter' = letter /\ lastIndex' = lastIndex

\* C22 as stated: appeal.generateFromCaseId(c) produces a letter only if an
\* earlier appeal.generate call with storeCaseForLookup = true carried c, from
\* the case saved last for c; for every other c it throws "Case not found" and
\* generates nothing; appeal.generate without storeCaseForLookup leaves the
\* registry unchanged.
C22_LetterOnlyForSavedCaseElseNotFound ==
  /\ [](FromCaseId =>
          IF Saved(tool.caseId) # <<>>
          THEN tool.outcome = "letter" /\ tool.used = <<Last(Saved(tool.caseId))>>
          ELSE tool.outcome = CaseNotFound /\ tool.used = <<>>)
  /\ [][RegistryKept]_vars

\* C22, amended: as above for a case id that is not empty; for the empty
\* case id the call throws "caseId is required" and generates nothing.
C22_LetterOnlyForSavedCase ==
  /\ [](FromCaseId =>
          IF Saved(tool.caseId) # <<>>
          THEN tool.outcome = "letter" /\ tool.used = <<Last(Saved(tool.caseId))>>
          ELSE /\ tool.used = <<>>
               /\ tool.outcome = IF tool.caseId = "" THEN IdRequired ELSE CaseNotFound)
  /\ [][RegistryKept]_vars

\* a letter is generated from a case id under which two different cases were
\* saved, while nothing was saved under the other case id
C22_Witness ==
  /\ FromCaseId
  /\ tool.outcome = "letter"
  /\ Len(Saved(tool.caseId)) = 2
  /\ Saved(tool.caseId)[1] # Saved(tool.caseId)[2]
  /\ \E c \in CaseIds : saved[c] = <<>>
====
